---------------------------- MODULE Spec2Model ----------------------------
(***************************************************************************)
(* Convertifile-API: the conversion job pipeline.                          *)
(*                                                                         *)
(*   POST /convert   api_routes/convert.py   intake gate, settings, enqueue *)
(*   worker          workers/tasks.py        convert_file_task              *)
(*   GET /status     api_routes/status.py    get_status                     *)
(*                                                                         *)
(* Strings of the program (file names, formats, MIME types, task ids) are  *)
(* sequences of one-character strings, so that split, lower, startswith    *)
(* and concatenation are computed as the code computes them.               *)
(***************************************************************************)
EXTENDS Integers, Sequences, FiniteSets, Bags, TLC

---------------------------------------------------------------------------
(* String helpers: the str methods the code uses.                          *)

UpperAlpha == <<"A","B","C","D","E","F","G","H","I","J","K","L","M",
                "N","O","P","Q","R","S","T","U","V","W","X","Y","Z">>

LowerAlpha == <<"a","b","c","d","e","f","g","h","i","j","k","l","m",
                "n","o","p","q","r","s","t","u","v","w","x","y","z">>

Digits == {"0","1","2","3","4","5","6","7","8","9"}

LowerChar(c) ==
  IF \E i \in 1..26 : UpperAlpha[i] = c
  THEN LowerAlpha[CHOOSE i \in 1..26 : UpperAlpha[i] = c]
  ELSE c

\* str.lower()
Lower(s) == [i \in 1..Len(s) |-> LowerChar(s[i])]

\* s[:n] for n >= 0
Take(s, n) == SubSeq(s, 1, IF n < Len(s) THEN n ELSE Len(s))

\* s[:n] with Python's meaning of a negative n (drop the last -n)
Slice(s, n) ==
  IF n >= 0 THEN Take(s, n)
  ELSE SubSeq(s, 1, IF Len(s) + n > 0 THEN Len(s) + n ELSE 0)

\* s.startswith(p)
StartsWith(s, p) == Len(p) <= Len(s) /\ SubSeq(s, 1, Len(p)) = p

EndsWith(s, p) ==
  Len(p) <= Len(s) /\ SubSeq(s, Len(s) - Len(p) + 1, Len(s)) = p

\* positions at which p occurs in s
Occurrences(s, p) ==
  {i \in 1..(Len(s) - Len(p) + 1) : SubSeq(s, i, i + Len(p) - 1) = p}

\* p in s
Contains(s, p) == Occurrences(s, p) # {}

Min(S) == CHOOSE x \in S : \A y \in S : x <= y

Max(S) == CHOOSE x \in S : \A y \in S : x >= y

\* s.replace(p, "", 1)
RemoveFirst(s, p) ==
  IF Contains(s, p)
  THEN LET i == Min(Occurrences(s, p))
       IN  SubSeq(s, 1, i - 1) \o SubSeq(s, i + Len(p), Len(s))
  ELSE s

\* index of the last "." of s, 0 when there is none
LastDot(s) ==
  IF \E i \in 1..Len(s) : s[i] = "." THEN Max({i \in 1..Len(s) : s[i] = "."})
  ELSE 0

\* s.rsplit('.', 1)[0]
RsplitHead(s) == IF LastDot(s) = 0 THEN s ELSE SubSeq(s, 1, LastDot(s) - 1)

\* s.split('.')[-1]
SplitLast(s) == SubSeq(s, LastDot(s) + 1, Len(s))

\* re.search(r'<lit>$', s): "$" also matches before one trailing newline
ReEndsWith(s, p) == EndsWith(s, p) \/ EndsWith(s, p \o <<"\n">>)

---------------------------------------------------------------------------
(* api_routes/convert.py: the intake gate.                                 *)

MAX_FILE_SIZE_IMAGE == 200 * 1024 * 1024

MAX_FILE_SIZE_VIDEO == 1024 * 1024 * 1024

MAX_FILE_SIZE_AUDIO == 500 * 1024 * 1024

MAX_FILE_SIZE_DOC == 100 * 1024 * 1024

ALLOWED_MIME_PREFIXES ==
  { <<"i","m","a","g","e","/">>, <<"a","u","d","i","o","/">>,
    <<"v","i","d","e","o","/">>,
    <<"a","p","p","l","i","c","a","t","i","o","n","/","p","d","f">>,
    <<"t","e","x","t","/">> }

\* the extensions of SUSPICIOUS_PATTERNS matched at the end of the name
SuspiciousFinalExt ==
  { <<".","e","x","e">>, <<".","s","h">>, <<".","b","a","t">>,
    <<".","c","m","d">>, <<".","p","h","p">>, <<".","j","s">>,
    <<".","d","l","l">>, <<".","v","b","s">>, <<".","p","y">> }

\* the extensions of r'\.(exe|sh|bat|cmd|php|js|dll)\.'
SuspiciousInnerExt ==
  { <<".","e","x","e",".">>, <<".","s","h",".">>, <<".","b","a","t",".">>,
    <<".","c","m","d",".">>, <<".","p","h","p",".">>, <<".","j","s",".">>,
    <<".","d","l","l",".">> }

\* r'<script', r'eval\(', r'system\(', r'exec\('
SuspiciousTokens ==
  { <<"<","s","c","r","i","p","t">>, <<"e","v","a","l","(">>,
    <<"s","y","s","t","e","m","(">>, <<"e","x","e","c","(">> }

is_suspicious_filename(filename) ==
  LET f == Lower(filename)
  IN  \/ \E p \in SuspiciousFinalExt : ReEndsWith(f, p)
      \/ \E p \in SuspiciousInnerExt : Contains(f, p)
      \/ \E p \in SuspiciousTokens : Contains(f, p)

---------------------------------------------------------------------------
(* sanitize_filename.  A character outside ASCII is written as the token   *)
(* of its code point ("U+00E9"); NFKD is modelled by the decompositions of *)
(* the characters the model draws.                                         *)

\* unicodedata.normalize('NFKD', c) for one character
NFKDChar(c) ==
  CASE c = "U+00E9" -> <<"e", "U+0301">>   \* e-acute: e + combining acute
    [] c = "U+FF0E" -> <<".">>             \* fullwidth full stop
    [] c = "U+FB01" -> <<"f", "i">>        \* ligature fi
    [] OTHER -> <<c>>

\* the decompositions of s[i..j], joined
RECURSIVE NFKDBetween(_, _, _)
NFKDBetween(s, i, j) ==
  IF i > j THEN <<>>
  ELSE IF i = j THEN NFKDChar(s[i])
  ELSE NFKDBetween(s, i, (i + j) \div 2)
         \o NFKDBetween(s, (i + j) \div 2 + 1, j)

NFKD(s) == NFKDBetween(s, 1, Len(s))

\* re's \w on str: alphanumerics and the underscore (a combining mark is not)
IsWordChar(c) ==
  \/ \E i \in 1..26 : c = UpperAlpha[i] \/ c = LowerAlpha[i]
  \/ c \in Digits
  \/ c = "_"
  \/ c = "U+00E9"

\* the allow-list of r'[^\w\-. ]'
IsSafeChar(c) == IsWordChar(c) \/ c \in {"-", ".", " "}

\* the characters of s[i..j] at the positions of K
RECURSIVE KeepBetween(_, _, _, _)
KeepBetween(s, K, i, j) ==
  IF i > j THEN <<>>
  ELSE IF i = j THEN (IF i \in K THEN <<s[i]>> ELSE <<>>)
  ELSE KeepBetween(s, K, i, (i + j) \div 2)
         \o KeepBetween(s, K, (i + j) \div 2 + 1, j)

KeepFrom(s, K, i) == KeepBetween(s, K, i, Len(s))

\* re.sub(r'c{2,}', 'c', s)
CollapseRuns(s, c) ==
  KeepFrom(s, {i \in 1..Len(s) : ~(s[i] = c /\ i > 1 /\ s[i - 1] = c)}, 1)

\* s.strip(chars)
Strip(s, C) ==
  LET idx == {i \in 1..Len(s) : s[i] \notin C}
  IN  IF idx = {} THEN <<>> ELSE SubSeq(s, Min(idx), Max(idx))

DEFAULT_STEM ==
  <<"c","o","n","v","e","r","t","e","d","_","i","m","a","g","e">>

MAX_NAME_LENGTH == 100

sanitize_filename(raw) ==
  LET filename  == NFKD(raw)
      hasDot    == LastDot(filename) # 0
      name0     == RsplitHead(filename)
      extension == IF hasDot THEN Lower(SplitLast(filename)) ELSE <<>>
      name1     == [i \in 1..Len(name0) |->
                      IF IsSafeChar(name0[i]) THEN name0[i] ELSE "_"]
      name2     == CollapseRuns(CollapseRuns(name1, "_"), " ")
      max_name_length ==
        IF extension # <<>> THEN MAX_NAME_LENGTH - Len(extension) - 1
        ELSE MAX_NAME_LENGTH
      name3     == Slice(name2, max_name_length)
      name4     == Strip(name3, {" ", ".", "_"})
      name      == IF name4 = <<>> THEN DEFAULT_STEM ELSE name4
  IN  IF extension # <<>> THEN name \o <<".">> \o extension ELSE name

---------------------------------------------------------------------------
(* Uploaded content is a record                                            *)
(*   head : the leading bytes of the content, one token per byte           *)
(*   size : len(contents)                                                  *)
(*   mime : the type libmagic derives from the bytes (mime.from_buffer)    *)

SIGNATURE_WINDOW == 100

\* suspicious_signatures: MZ, 0x7F ELF, #!, <?php, <script
suspicious_signatures ==
  { <<"M","Z">>, <<"0x7F","E","L","F">>, <<"#","!">>,
    <<"<","?","p","h","p">>, <<"<","s","c","r","i","p","t">> }

\* check_suspicious_signatures looking at the start of the content only
check_suspicious_signatures_at_start(contents) ==
  \E sig \in suspicious_signatures : StartsWith(contents.head, sig)

\* TRUE iff check_suspicious_signatures raises HTTPException(400)
check_suspicious_signatures(contents) ==
  \E sig \in suspicious_signatures :
    Contains(Take(contents.head, SIGNATURE_WINDOW), sig)

\* check_mime_type with every application/ type allowed
check_mime_type_application(contents) ==
  ~ \E prefix \in ALLOWED_MIME_PREFIXES \cup
                    {<<"a","p","p","l","i","c","a","t","i","o","n","/">>} :
      StartsWith(contents.mime, prefix)

\* TRUE iff check_mime_type raises HTTPException(400); else it returns mime
check_mime_type(contents) ==
  ~ \E prefix \in ALLOWED_MIME_PREFIXES : StartsWith(contents.mime, prefix)

audio_formats ==
  { <<"m","p","3">>, <<"w","a","v">>, <<"f","l","a","c">>, <<"a","a","c">>,
    <<"o","g","g">>, <<"m","4","a">>, <<"o","p","u","s">> }

video_formats ==
  { <<"m","p","4">>, <<"m","o","v">>, <<"a","v","i">>, <<"m","k","v">>,
    <<"w","e","b","m">>, <<"f","l","v">>, <<"w","m","v">> }

doc_formats ==
  { <<"p","d","f">>, <<"d","o","c","x">>, <<"t","e","x","t">>,
    <<"t","x","t">> }

get_file_category(mime_type, convert_to) ==
  IF StartsWith(mime_type, <<"i","m","a","g","e","/">>) THEN "image"
  ELSE IF \/ StartsWith(mime_type, <<"v","i","d","e","o","/">>)
          \/ Lower(convert_to) \in video_formats THEN "video"
  ELSE IF \/ StartsWith(mime_type, <<"a","u","d","i","o","/">>)
          \/ Lower(convert_to) \in audio_formats THEN "audio"
  ELSE IF \/ StartsWith(mime_type,
               <<"a","p","p","l","i","c","a","t","i","o","n","/","p","d","f">>)
          \/ StartsWith(mime_type, <<"t","e","x","t","/">>)
          \/ Lower(convert_to) \in doc_formats THEN "doc"
  ELSE "image"

\* the ceiling check_file_size applies
max_size(mime_type, convert_to) ==
  LET category == get_file_category(mime_type, convert_to)
  IN  CASE category = "image" -> MAX_FILE_SIZE_IMAGE
        [] category = "video" -> MAX_FILE_SIZE_VIDEO
        [] category = "audio" -> MAX_FILE_SIZE_AUDIO
        [] category = "doc"   -> MAX_FILE_SIZE_DOC
        [] OTHER              -> MAX_FILE_SIZE_IMAGE

\* the detail of the HTTPException(413) of check_file_size, in its parts
too_large(mime_type, convert_to) ==
  << "File too large. Max size allowed for ",
     get_file_category(mime_type, convert_to), " is ",
     max_size(mime_type, convert_to) \div (1024 * 1024), "MB" >>

\* check_file_size with content of exactly the ceiling refused
check_file_size_inclusive(contents, mime_type, convert_to) ==
  contents.size >= max_size(mime_type, convert_to)

\* TRUE iff check_file_size raises HTTPException(413)
check_file_size(contents, mime_type, convert_to) ==
  contents.size > max_size(mime_type, convert_to)

---------------------------------------------------------------------------
(* get_conversion_settings.  form_data is the record of the 24 form fields *)
(* of convert_file; option values are opaque to the resolver and written   *)
(* as strings ("None", "80", "True").                                      *)

AudioOptions ==
  { "audio_remove_metadata", "audio_codec", "audio_bitrate",
    "audio_sample_rate", "audio_channels", "audio_compression_level" }

VideoOptions ==
  { "video_remove_metadata", "video_codec", "video_crf", "video_profile",
    "video_level", "video_speed", "video_bitrate", "video_fps" }

DocOptions == { "dpi", "doc_quality" }

ImageOptions ==
  { "remove_metadata", "compression", "quality", "optimize",
    "bmp_compression", "tga_compression", "pdf_page_size", "avif_speed" }

FormFields == ImageOptions \cup AudioOptions \cup VideoOptions \cup DocOptions

\* a resolver whose image bundle takes quality from the document options
get_conversion_settings_leaky(convert_to, form_data) ==
  IF Lower(convert_to) \in audio_formats THEN
    [ remove_metadata   |-> form_data["audio_remove_metadata"],
      codec             |-> form_data["audio_codec"],
      bitrate           |-> form_data["audio_bitrate"],
      sample_rate       |-> form_data["audio_sample_rate"],
      channels          |-> form_data["audio_channels"],
      compression_level |-> form_data["audio_compression_level"] ]
  ELSE IF Lower(convert_to) \in video_formats THEN
    [ remove_metadata |-> form_data["video_remove_metadata"],
      codec           |-> form_data["video_codec"],
      crf             |-> form_data["video_crf"],
      profile         |-> form_data["video_profile"],
      level           |-> form_data["video_level"],
      speed           |-> form_data["video_speed"],
      bitrate         |-> form_data["video_bitrate"],
      fps             |-> form_data["video_fps"] ]
  ELSE IF Lower(convert_to) \in doc_formats THEN
    [ dpi     |-> form_data["dpi"],
      quality |-> form_data["doc_quality"] ]
  ELSE
    [ remove_metadata |-> form_data["remove_metadata"],
      compression     |-> form_data["compression"],
      quality         |-> form_data["doc_quality"],
      optimize        |-> form_data["optimize"],
      bmp_compression |-> form_data["bmp_compression"],
      tga_compression |-> form_data["tga_compression"],
      pdf_page_size   |-> form_data["pdf_page_size"],
      avif_speed      |-> form_data["avif_speed"] ]

get_conversion_settings(convert_to, form_data) ==
  IF Lower(convert_to) \in audio_formats THEN
    [ remove_metadata   |-> form_data["audio_remove_metadata"],
      codec             |-> form_data["audio_codec"],
      bitrate           |-> form_data["audio_bitrate"],
      sample_rate       |-> form_data["audio_sample_rate"],
      channels          |-> form_data["audio_channels"],
      compression_level |-> form_data["audio_compression_level"] ]
  ELSE IF Lower(convert_to) \in video_formats THEN
    [ remove_metadata |-> form_data["video_remove_metadata"],
      codec           |-> form_data["video_codec"],
      crf             |-> form_data["video_crf"],
      profile         |-> form_data["video_profile"],
      level           |-> form_data["video_level"],
      speed           |-> form_data["video_speed"],
      bitrate         |-> form_data["video_bitrate"],
      fps             |-> form_data["video_fps"] ]
  ELSE IF Lower(convert_to) \in doc_formats THEN
    [ dpi     |-> form_data["dpi"],
      quality |-> form_data["doc_quality"] ]
  ELSE
    [ remove_metadata |-> form_data["remove_metadata"],
      compression     |-> form_data["compression"],
      quality         |-> form_data["quality"],
      optimize        |-> form_data["optimize"],
      bmp_compression |-> form_data["bmp_compression"],
      tga_compression |-> form_data["tga_compression"],
      pdf_page_size   |-> form_data["pdf_page_size"],
      avif_speed      |-> form_data["avif_speed"] ]

---------------------------------------------------------------------------
(* convert_file: the gates in the order of the handler, then the enqueue.  *)

\* the gates without the filename screening
intake_unscreened(filename, contents, convert_to) ==
  IF check_suspicious_signatures(contents) THEN
    [code |-> 400,
     detail |-> "File rejected due to possible malicious content"]
  ELSE IF check_mime_type(contents) THEN
    [code |-> 400, detail |-> "Unsupported file type."]
  ELSE IF check_file_size(contents, contents.mime, convert_to) THEN
    [code |-> 413, detail |-> too_large(contents.mime, convert_to)]
  ELSE
    [code |-> 200, detail |-> "Conversion starting"]

\* no exception
Returns == [py |-> "None"]

\* a handler that reads and screens the content before it looks at the name
handler_calls_content_first(filename, contents, convert_to) ==
  << [ call   |-> "file.read", raises |-> Returns ],
     [ call   |-> "check_suspicious_signatures",
       raises |-> IF check_suspicious_signatures(contents)
                  THEN [code |-> 400,
                        detail |-> "File rejected due to possible malicious content"]
                  ELSE Returns ],
     [ call   |-> "is_suspicious_filename",
       raises |-> IF is_suspicious_filename(filename)
                  THEN [code |-> 400, detail |-> "Unallowed filename."]
                  ELSE Returns ],
     [ call   |-> "sanitize_filename", raises |-> Returns ],
     [ call   |-> "check_mime_type",
       raises |-> IF check_mime_type(contents)
                  THEN [code |-> 400, detail |-> "Unsupported file type."]
                  ELSE Returns ],
     [ call   |-> "check_file_size",
       raises |-> IF check_file_size(contents, contents.mime, convert_to)
                  THEN [code |-> 413,
                        detail |-> too_large(contents.mime, convert_to)]
                  ELSE Returns ],
     [ call   |-> "get_conversion_settings", raises |-> Returns ],
     [ call   |-> "convert_file_task.delay", raises |-> Returns ] >>

\* a handler that checks the size before it screens the content
handler_calls_size_first(filename, contents, convert_to) ==
  << [ call   |-> "is_suspicious_filename",
       raises |-> IF is_suspicious_filename(filename)
                  THEN [code |-> 400, detail |-> "Unallowed filename."]
                  ELSE Returns ],
     [ call   |-> "sanitize_filename", raises |-> Returns ],
     [ call   |-> "file.read", raises |-> Returns ],
     [ call   |-> "check_file_size",
       raises |-> IF check_file_size(contents, contents.mime, convert_to)
                  THEN [code |-> 413,
                        detail |-> too_large(contents.mime, convert_to)]
                  ELSE Returns ],
     [ call   |-> "check_suspicious_signatures",
       raises |-> IF check_suspicious_signatures(contents)
                  THEN [code |-> 400,
                        detail |-> "File rejected due to possible malicious content"]
                  ELSE Returns ],
     [ call   |-> "check_mime_type",
       raises |-> IF check_mime_type(contents)
                  THEN [code |-> 400, detail |-> "Unsupported file type."]
                  ELSE Returns ],
     [ call   |-> "get_conversion_settings", raises |-> Returns ],
     [ call   |-> "convert_file_task.delay", raises |-> Returns ] >>

\* the calls of the handler body in program order, each with the
\* HTTPException it raises for the request
handler_calls(filename, contents, convert_to) ==
  << [ call   |-> "is_suspicious_filename",
       raises |-> IF is_suspicious_filename(filename)
                  THEN [code |-> 400, detail |-> "Unallowed filename."]
                  ELSE Returns ],
     [ call   |-> "sanitize_filename", raises |-> Returns ],
     [ call   |-> "file.read", raises |-> Returns ],
     [ call   |-> "check_suspicious_signatures",
       raises |-> IF check_suspicious_signatures(contents)
                  THEN [code |-> 400,
                        detail |-> "File rejected due to possible malicious content"]
                  ELSE Returns ],
     [ call   |-> "check_mime_type",
       raises |-> IF check_mime_type(contents)
                  THEN [code |-> 400, detail |-> "Unsupported file type."]
                  ELSE Returns ],
     [ call   |-> "check_file_size",
       raises |-> IF check_file_size(contents, contents.mime, convert_to)
                  THEN [code |-> 413,
                        detail |-> too_large(contents.mime, convert_to)]
                  ELSE Returns ],
     [ call   |-> "get_conversion_settings", raises |-> Returns ],
     [ call   |-> "convert_file_task.delay", raises |-> Returns ] >>

\* the calls the handler makes for a request: up to the first that raises
calls_made(filename, contents, convert_to) ==
  LET all   == handler_calls(filename, contents, convert_to)
      stops == { i \in 1..Len(all) : all[i].raises # Returns }
  IN  IF stops = {} THEN all ELSE SubSeq(all, 1, Min(stops))

\* the HTTPException the handler raises for a request, or the 200 answer
intake(filename, contents, convert_to) ==
  LET made == calls_made(filename, contents, convert_to)
      last == made[Len(made)]
  IN  IF last.raises # Returns THEN last.raises
      ELSE [code |-> 200, detail |-> "Conversion starting"]

\* the arguments of convert_file_task.delay(...)
task_args(filename, contents, convert_to, form_data) ==
  [ filename            |-> sanitize_filename(filename),
    contents            |-> contents,
    convert_to          |-> convert_to,
    conversion_settings |-> get_conversion_settings(convert_to, form_data) ]

---------------------------------------------------------------------------
(* workers/tasks.py: convert_file_task.                                    *)

SUPPORTED_EXTENSIONS ==
  [ images |->
      { <<"j","p","g">>, <<"j","p","e","g">>, <<"p","n","g">>,
        <<"g","i","f">>, <<"w","e","b","p">>, <<"b","m","p">>,
        <<"t","i","f","f">>, <<"i","c","o">>, <<"a","i","f","f">>,
        <<"h","e","i","c">>, <<"a","v","i","f">>, <<"p","d","f">>,
        <<"p","p","m">>, <<"p","b","m">>, <<"t","g","a">>,
        <<"s","g","i">> } ]

\* SUPPORTED_EXTENSIONS[key]: the table, or the KeyError of a missing key
HasTable(key) == key \in DOMAIN SUPPORTED_EXTENSIONS

\* ext = filename.split('.')[-1].lower()
task_ext(filename) == Lower(SplitLast(filename))

\* converted_filename = f"{filename.rsplit('.', 1)[0]}.{convert_to}"
converted_filename(filename, convert_to) ==
  RsplitHead(filename) \o <<".">> \o convert_to

\* a name under TEMP_DIR that leaves the task id out
result_name_without_id(task_id, filename, convert_to) ==
  converted_filename(filename, convert_to)

\* a name under TEMP_DIR that carries the task id behind the stem
result_name_id_last(task_id, filename, convert_to) ==
  RsplitHead(filename) \o <<"_">> \o task_id \o <<".">> \o convert_to

\* f"{task_id}_{converted_filename}", the name under TEMP_DIR
result_name(task_id, filename, convert_to) ==
  task_id \o <<"_">> \o converted_filename(filename, convert_to)

\* the match statement: the converter called for ext, or the exception raised
\* while the cases are tried in order
dispatch(ext) ==
  IF ext \in SUPPORTED_EXTENSIONS["images"] THEN
    [kind |-> "call", converter |-> "image"]
  ELSE IF ~HasTable("audio") THEN
    [kind |-> "raise", error |-> <<"'audio'">>]
  ELSE IF ext \in SUPPORTED_EXTENSIONS["audio"] THEN
    [kind |-> "call", converter |-> "audio"]
  ELSE IF ~HasTable("video") THEN
    [kind |-> "raise", error |-> <<"'video'">>]
  ELSE IF ext \in SUPPORTED_EXTENSIONS["video"] THEN
    [kind |-> "call", converter |-> "video"]
  ELSE IF ~HasTable("documents") THEN
    [kind |-> "raise", error |-> <<"'documents'">>]
  ELSE IF ext \in SUPPORTED_EXTENSIONS["documents"] THEN
    [kind |-> "call", converter |-> "document"]
  ELSE
    [kind |-> "raise",
     error |-> <<"Unsupported file type: .">> \o ext]

---------------------------------------------------------------------------
(* The converters, as the worker calls them:                               *)
(*   converter(contents, convert_to, conversion_settings)                  *)
(* Their byte-level work is outside the pipeline; a call either returns    *)
(* output bytes or raises.  Output bytes are the record of what was        *)
(* encoded: the input, the target format and the parameters acted on.      *)

\* the target formats convert_image can save
image_targets ==
  { <<"j","p","e","g">>, <<"j","p","g">>, <<"w","e","b","p">>,
    <<"p","n","g">>, <<"t","i","f","f">>, <<"g","i","f">>, <<"b","m","p">>,
    <<"a","v","i","f">>, <<"h","e","i","f">>, <<"h","e","i","c">>,
    <<"i","c","o">>, <<"p","p","m">>, <<"p","c","x">>, <<"t","g","a">>,
    <<"s","g","i">>, <<"p","d","f">> }

\* convert_image(input_bytes, target_format, remove_metadata=False,
\*               quality=None, optimize=True, bmp_compression=True,
\*               pdf_page_size='A4', avif_speed=6)
\* called with three positional arguments: the settings dict is bound to
\* remove_metadata (a non-empty dict is true), the rest keep their defaults
convert_image_params(conversion_settings) ==
  [ remove_metadata |-> "True", quality |-> "None", optimize |-> "True",
    bmp_compression |-> "True", pdf_page_size |-> "A4", avif_speed |-> "6" ]

convert_image(contents, convert_to, conversion_settings) ==
  { [kind |-> "raise", error |-> <<"Image conversion failed">>] }
  \cup
  IF /\ StartsWith(contents.mime, <<"i","m","a","g","e","/">>)
     /\ Lower(convert_to) \in image_targets
  THEN { [kind |-> "return",
          bytes |-> [ input  |-> contents.mime,
                      format |-> Lower(convert_to),
                      converter |-> "image",
                      params |-> convert_image_params(conversion_settings) ]] }
  ELSE {}

\* convert_audio(input_bytes, target_format, remove_metadata=False, ...)
convert_audio(contents, convert_to, conversion_settings) ==
  { [kind |-> "raise", error |-> <<"Audio conversion failed">>],
    [kind |-> "return",
     bytes |-> [ input |-> contents.mime, format |-> Lower(convert_to),
                 converter |-> "audio", params |-> conversion_settings ]] }

\* convert_video(input_bytes, target_format, settings=None)
convert_video(contents, convert_to, conversion_settings) ==
  { [kind |-> "raise", error |-> <<"Video conversion failed">>],
    [kind |-> "return",
     bytes |-> [ input |-> contents.mime, format |-> Lower(convert_to),
                 converter |-> "video", params |-> conversion_settings ]] }

\* convert_document(contents, from_format, to_format, settings=None):
\* the settings dict is bound to to_format and to_format.lower() raises
convert_document(contents, convert_to, conversion_settings) ==
  { [kind |-> "raise",
     error |-> <<"'dict' object has no attribute 'lower'">>] }

\* the outcomes of the try block up to the converter's return
converter_outcomes(filename, contents, convert_to, conversion_settings) ==
  LET d == dispatch(task_ext(filename))
  IN  IF d.kind = "raise" THEN { d }
      ELSE CASE d.converter = "image" ->
                  convert_image(contents, convert_to, conversion_settings)
             [] d.converter = "audio" ->
                  convert_audio(contents, convert_to, conversion_settings)
             [] d.converter = "video" ->
                  convert_video(contents, convert_to, conversion_settings)
             [] d.converter = "document" ->
                  convert_document(contents, convert_to, conversion_settings)

---------------------------------------------------------------------------
(* The inputs the model draws.                                             *)

MaxJobs == 2         \* jobs accepted by /convert

MaxDeliveries == 3   \* deliveries by the broker over all jobs (at-least-once)

TaskIdDigits == <<"1","2","3","4","5","6","7","8","9">>

\* the ids the queue assigns: distinct strings of one length, like uuid4
TaskId(n) == <<"a", TaskIdDigits[n]>>

TaskIds == { TaskId(n) : n \in 1..MaxJobs }

\* the ids a client may ask about: the issued ones and a proper prefix
QueryIds == TaskIds \cup { <<"a">> }

MimeJpeg == <<"i","m","a","g","e","/","j","p","e","g">>

MimeMpeg == <<"a","u","d","i","o","/","m","p","e","g">>

MimeExe ==
  <<"a","p","p","l","i","c","a","t","i","o","n","/",
    "x","-","d","o","s","e","x","e","c">>

MimeZip == <<"a","p","p","l","i","c","a","t","i","o","n","/","z","i","p">>

JpegBytes == [head |-> <<"0xFF","0xD8","0xFF">>, size |-> 2048, mime |-> MimeJpeg]

Mp3Bytes == [head |-> <<"I","D","3">>, size |-> 4096, mime |-> MimeMpeg]

ExeBytes == [head |-> <<"M","Z","0x90">>, size |-> 2048, mime |-> MimeExe]

ZipBytes == [head |-> <<"P","K","0x03">>, size |-> 2048, mime |-> MimeZip]

HugeJpegBytes ==
  [head |-> <<"0xFF","0xD8","0xFF">>, size |-> MAX_FILE_SIZE_IMAGE + 1,
   mime |-> MimeJpeg]

\* the defaults of the Form(...) parameters of convert_file
FormDefaults ==
  [ remove_metadata |-> "False", compression |-> "False", quality |-> "None",
    optimize |-> "True", bmp_compression |-> "True",
    tga_compression |-> "True", pdf_page_size |-> "A4", avif_speed |-> "6",
    audio_remove_metadata |-> "False", audio_codec |-> "None",
    audio_bitrate |-> "None", audio_sample_rate |-> "None",
    audio_channels |-> "2", audio_compression_level |-> "None",
    video_remove_metadata |-> "False", video_codec |-> "None",
    video_crf |-> "None", video_profile |-> "None", video_level |-> "None",
    video_speed |-> "None", video_bitrate |-> "None", video_fps |-> "None",
    dpi |-> "200", doc_quality |-> "None" ]

FormQuality80 == [FormDefaults EXCEPT !["quality"] = "80"]

PhotoJPG == <<"p","h","o","t","o",".","J","P","G">>

SongMp3 == <<"s","o","n","g",".","m","p","3">>

DataXyz == <<"d","a","t","a",".","x","y","z">>

EvilExeJpg == <<"e","v","i","l",".","e","x","e",".","j","p","g">>

Webp == <<"w","e","b","p">>

Mp4 == <<"m","p","4">>

Wav == <<"w","a","v">>

Png == <<"p","n","g">>

Request(filename, contents, convert_to, form_data) ==
  [ filename |-> filename, contents |-> contents, convert_to |-> convert_to,
    form_data |-> form_data ]

\* the /convert requests of the pipeline runs: each passes the gate
Uploads ==
  { Request(PhotoJPG, JpegBytes, Webp, FormQuality80),
    Request(PhotoJPG, JpegBytes, Mp4, FormDefaults),
    Request(SongMp3, Mp3Bytes, Wav, FormDefaults),
    Request(DataXyz, JpegBytes, Png, FormDefaults) }

\* the /convert requests of the gate runs: one per gate that fails, and one
\* that passes
GateUploads ==
  { Request(PhotoJPG, JpegBytes, Webp, FormQuality80),
    Request(EvilExeJpg, JpegBytes, Webp, FormDefaults),
    Request(PhotoJPG, ExeBytes, Webp, FormDefaults),
    Request(PhotoJPG, ZipBytes, Webp, FormDefaults),
    Request(PhotoJPG, HugeJpegBytes, Webp, FormDefaults) }

Mp3Upper == <<"M","P","3">>

Pdf == <<"p","d","f">>

Txt == <<"t","x","t">>

Xyz == <<"x","y","z">>

FormAudio ==
  [FormDefaults EXCEPT !["audio_bitrate"] = "128k", !["audio_codec"] = "aac",
                       !["audio_remove_metadata"] = "True"]

FormVideo ==
  [FormDefaults EXCEPT !["video_bitrate"] = "1M", !["video_crf"] = "23",
                       !["video_codec"] = "libx264"]

FormDoc == [FormDefaults EXCEPT !["dpi"] = "300", !["doc_quality"] = "90"]

Forms == { FormDefaults, FormQuality80, FormAudio, FormVideo, FormDoc }

\* the /convert requests of the settings runs: every kind of target format
\* with every form
SettingsUploads ==
  { Request(PhotoJPG, JpegBytes, convert_to, form_data) :
      convert_to \in { Webp, Mp3Upper, Wav, Mp4, Pdf, Txt, Xyz },
      form_data \in Forms }

RunExeUpper == <<"R","U","N",".","E","X","E">>

ScriptPng == <<"a","<","s","c","r","i","p","t",".","p","n","g">>

TinyMp4 == <<"t","i","n","y",".","m","p","4">>

MimeText == <<"t","e","x","t","/","p","l","a","i","n">>

MimeHtml == <<"t","e","x","t","/","h","t","m","l">>

MimeMp4 == <<"v","i","d","e","o","/","m","p","4">>

MimePdf == <<"a","p","p","l","i","c","a","t","i","o","n","/","p","d","f">>

\* a small plain-text file
TextBytes == [head |-> <<"h","i","\n">>, size |-> 5120, mime |-> MimeText]

\* an HTML page that opens with a script element
ScriptBytes ==
  [head |-> <<"<","s","c","r","i","p","t",">">>, size |-> 64, mime |-> MimeHtml]

\* a JPEG whose bytes 99 and 100 are "MZ": inside the screened window
LateMZJpeg ==
  [ head |-> [i \in 1..100 |->
                CASE i = 1 -> "0xFF" [] i = 2 -> "0xD8" [] i = 3 -> "0xFF"
                  [] i = 99 -> "M" [] i = 100 -> "Z" [] OTHER -> "0x00"],
    size |-> 2048, mime |-> MimeJpeg ]

\* a JPEG whose bytes 100 and 101 are "MZ": across the end of the window
PastMZJpeg ==
  [ head |-> [i \in 1..101 |->
                CASE i = 1 -> "0xFF" [] i = 2 -> "0xD8" [] i = 3 -> "0xFF"
                  [] i = 100 -> "M" [] i = 101 -> "Z" [] OTHER -> "0x00"],
    size |-> 2048, mime |-> MimeJpeg ]

\* content of a given length and sniffed type
Sized(contents, size, mime) == [contents EXCEPT !.size = size, !.mime = mime]

\* contents at and just above each ceiling
EdgeContents ==
  { Sized(JpegBytes, MAX_FILE_SIZE_IMAGE + d, MimeJpeg) : d \in {0, 1} } \cup
  { Sized(Mp3Bytes, MAX_FILE_SIZE_AUDIO + d, MimeMpeg) : d \in {0, 1} } \cup
  { Sized(Mp3Bytes, MAX_FILE_SIZE_VIDEO + d, MimeMp4) : d \in {0, 1} } \cup
  { Sized(TextBytes, MAX_FILE_SIZE_DOC + d, MimePdf) : d \in {0, 1} }

\* contents that fail more than one gate: signature and size; signature,
\* type and size; type and size
ManyFaults ==
  { Sized(LateMZJpeg, MAX_FILE_SIZE_IMAGE + 1, MimeJpeg),
    Sized(ExeBytes, MAX_FILE_SIZE_VIDEO + 1, MimeExe),
    Sized(ZipBytes, MAX_FILE_SIZE_VIDEO + 1, MimeZip) }

\* the /convert requests of the intake runs: names, contents and targets
\* in every combination
IntakeUploads ==
  { Request(filename, contents, convert_to, FormDefaults) :
      filename \in { PhotoJPG, SongMp3, TinyMp4, EvilExeJpg, RunExeUpper,
                     ScriptPng },
      contents \in { JpegBytes, Mp3Bytes, TextBytes, ExeBytes, ZipBytes,
                     ScriptBytes, LateMZJpeg, PastMZJpeg }
                     \cup EdgeContents \cup ManyFaults,
      convert_to \in { Webp, Mp4, Wav, Pdf } }

\* an extension longer than the whole length budget of a name
LongExtension == [i \in 1..120 |-> "x"]

\* the part of a declared name before its last suffix
NameStems ==
  { <<>>, <<"a">>, <<"a",".","B">>, <<"_","_">>, <<".",".">>,
    <<"a"," "," ","b">>, <<"U+00E9">>, <<"a","/","b">>, <<" ","a","_">>,
    <<"a","_","_","b">>, <<"-">>, <<"A","b","C">> }

NameSuffixes ==
  { <<>>, <<".">>, <<".","J","P","G">>, <<".","j","p","g">>,
    <<".","U+00E9">>, <<".","t","a","r",".","G","Z">>, <<"."," ">>,
    <<"_",".">>, <<".","p","n","g","U+FF0E">>, <<".","j","/","g">> }

\* names longer than the length budget: in the stem, in the extension
LongNames ==
  { [i \in 1..105 |-> "n"] \o <<".","j","p","g">>,
    [i \in 1..30 |-> "a"] \o <<".">> \o LongExtension }

\* declared names: empty, all punctuation, ending in a dot, upper-case and
\* over-long extensions, characters outside ASCII
RawNames ==
  { stem \o suffix : stem \in NameStems, suffix \in NameSuffixes }
    \cup LongNames

\* the /convert requests of the naming runs
NameUploads ==
  { Request(filename, JpegBytes, Webp, FormDefaults) : filename \in RawNames }

---------------------------------------------------------------------------
(* State.                                                                  *)

VARIABLES
  jobs,       \* the queue: task id -> the arguments of its message
  delivered,  \* task id -> how often the broker has delivered its message
  backend,    \* the result backend: task id -> [state, info]
  running,    \* task id -> the bag of its executions' locals [pc, result]
  dir,        \* TEMP_DIR: file name -> [data, mtime]
  http,       \* the last /convert request, the calls made for it, its answer
  sreq,       \* the /status request being served
  clock,      \* time.time(), in seconds
  reap,       \* the cleanup_temp_files pass being run, and the one before
  dl          \* the /result request being served, and the one before

vars == <<jobs, delivered, backend, running, dir, http, sreq, clock, reap, dl>>

None == [py |-> "None"]

\* what AsyncResult reads for a task id: PENDING for an id the backend
\* knows nothing about
task_meta(task_id) ==
  IF task_id \in DOMAIN backend THEN backend[task_id]
  ELSE [state |-> "PENDING", info |-> None]

Put(f, k, v) == [x \in DOMAIN f \cup {k} |-> IF x = k THEN v ELSE f[x]]

Drop(f, k) == [x \in DOMAIN f \ {k} |-> f[x]]

\* an exception instance as the result backend hands it back
Raised(type, message) == [exc |-> type, str |-> message]

\* the locals of a /status request: its position, the AsyncResult cache
\* (meta), the status token read so far and the answer; listed and fetched
\* record what its directory listings and its backend reads have seen
Idle ==
  [ pc |-> "idle", task_id |-> <<>>, meta |-> None, status |-> None,
    resp |-> None, listed |-> {}, fetched |-> {} ]

\* the locals of a cleanup_temp_files pass; prev is the outcome of the pass
\* before with the current_time it ran at (and the same of the pass before
\* that), evicted the names unlinked so far
NoPass ==
  [ pc |-> "idle", current_time |-> 0, todo |-> {}, item |-> <<>>,
    file_age |-> 0, deleted_count |-> 0, prev |-> None, evicted |-> {} ]

\* the locals of a /result request: the names still to visit, the file
\* chosen, the answer; saw is the directory as its listing found it, steady
\* whether each later look found it the same, prev the request before
NoDownload ==
  [ pc |-> "idle", file_id |-> <<>>, todo |-> {}, file |-> <<>>,
    saw |-> <<>>, steady |-> TRUE, resp |-> None, prev |-> None ]

Init ==
  /\ jobs = <<>>
  /\ delivered = <<>>
  /\ backend = <<>>
  /\ running = <<>>
  /\ dir = <<>>
  /\ http = [request |-> None, response |-> None, calls |-> <<>>]
  /\ sreq = Idle
  /\ clock = 0
  /\ reap = NoPass
  /\ dl = NoDownload

---------------------------------------------------------------------------
(* POST /convert                                                           *)

\* every /convert request the runs draw
AllUploads ==
  Uploads \cup GateUploads \cup SettingsUploads \cup IntakeUploads
    \cup NameUploads

\* the answer of the gates to each request (a function of the request alone)
GateAnswer ==
  [req \in AllUploads |-> intake(req.filename, req.contents, req.convert_to)]

\* the arguments of convert_file_task.delay for each request
ArgsOf ==
  [req \in AllUploads |->
     task_args(req.filename, req.contents, req.convert_to, req.form_data)]

\* the names of the calls the handler makes for each request
CallsOf ==
  [req \in AllUploads |->
     LET made == calls_made(req.filename, req.contents, req.convert_to)
     IN  [i \in 1..Len(made) |-> made[i].call]]

\* the handler: a rejected request raises before anything is enqueued
convert_file(req) ==
  LET answer == GateAnswer[req]
  IN  IF answer.code # 200 THEN
        /\ http' = [request |-> req, response |-> answer,
                    calls |-> CallsOf[req]]
        /\ UNCHANGED <<jobs, delivered, backend, running, dir, sreq,
                       clock, reap, dl>>
      ELSE
        /\ Cardinality(DOMAIN jobs) < MaxJobs
        /\ LET celery_task_id == TaskId(Cardinality(DOMAIN jobs) + 1)
           IN  /\ jobs' = Put(jobs, celery_task_id, ArgsOf[req])
               /\ delivered' = Put(delivered, celery_task_id, 0)
               /\ running' = Put(running, celery_task_id, EmptyBag)
               /\ http' = [request |-> req,
                           response |-> [code |-> 200,
                                         celery_id |-> celery_task_id,
                                         message |-> "Conversion starting"],
                           calls |-> CallsOf[req]]
        /\ UNCHANGED <<backend, dir, sreq, clock, reap, dl>>

---------------------------------------------------------------------------
(* convert_file_task, one action per checkpoint.  The executions of a job  *)
(* are a bag of local states: the broker may deliver a message again while *)
(* an earlier delivery is still being worked on.                           *)

\* self.update_state(state='processing', meta=meta)
update_state(task_id, meta) ==
  backend' = Put(backend, task_id, [state |-> "processing", info |-> meta])

\* the execution in local state l moves to local state m
Step(task_id, l, m) ==
  running' = [running EXCEPT ![task_id] = (@ (-) SetToBag({l})) (+) SetToBag({m})]

\* the task returns value: the backend stores it with state SUCCESS
task_return(task_id, l, value) ==
  /\ backend' = Put(backend, task_id, [state |-> "SUCCESS", info |-> value])
  /\ running' = [running EXCEPT ![task_id] = @ (-) SetToBag({l})]

\* the task without its except clause: the exception leaves the task
task_failed_uncaught(task_id, l, error) ==
  /\ backend' = Put(backend, task_id,
                     [state |-> "FAILURE", info |-> Raised("Exception", error)])
  /\ running' = [running EXCEPT ![task_id] = @ (-) SetToBag({l})]

\* except Exception as e: return {"status": "failed", "error": str(e)}
task_failed(task_id, l, error) ==
  task_return(task_id, l, [status |-> "failed", error |-> error])

\* the executions of task_id at pc
At(task_id, pc) ==
  IF task_id \in DOMAIN running
  THEN { l \in BagToSet(running[task_id]) : l.pc = pc }
  ELSE {}

RECURSIVE SumOver(_, _)

SumOver(f, S) ==
  IF S = {} THEN 0
  ELSE LET x == CHOOSE y \in S : TRUE IN f[x] + SumOver(f, S \ {x})

\* the deliveries the broker has made so far
TotalDelivered == SumOver(delivered, DOMAIN delivered)

\* the broker delivers the message; the task publishes progress 15
TaskPrepare(task_id) ==
  /\ task_id \in DOMAIN jobs
  /\ TotalDelivered < MaxDeliveries
  /\ delivered' = [delivered EXCEPT ![task_id] = @ + 1]
  /\ running' = [running EXCEPT ![task_id] =
                   @ (+) SetToBag({[pc |-> "start", result |-> <<>>]})]
  /\ update_state(task_id, [progress |-> 15, message |-> <<"Preparing">>])
  /\ UNCHANGED <<jobs, dir, http, sreq, clock, reap, dl>>

TaskStart(task_id) ==
  /\ \E l \in At(task_id, "start") :
       Step(task_id, l, [l EXCEPT !.pc = "converting"])
  /\ update_state(task_id, [progress |-> 20,
                            filename |-> jobs[task_id].filename,
                            message |-> <<"Starting">>])
  /\ UNCHANGED <<jobs, delivered, dir, http, sreq, clock, reap, dl>>

TaskConverting(task_id) ==
  /\ \E l \in At(task_id, "converting") :
       Step(task_id, l, [l EXCEPT !.pc = "dispatch"])
  /\ update_state(task_id,
                  [progress |-> 50,
                   message |-> <<"Converting to ">> \o jobs[task_id].convert_to])
  /\ UNCHANGED <<jobs, delivered, dir, http, sreq, clock, reap, dl>>

\* the match statement and the converter call end: a result or an exception
TaskDispatch(task_id) ==
  /\ \E l \in At(task_id, "dispatch") :
       \E o \in converter_outcomes(jobs[task_id].filename,
                                   jobs[task_id].contents,
                                   jobs[task_id].convert_to,
                                   jobs[task_id].conversion_settings) :
         IF o.kind = "raise" THEN task_failed(task_id, l, o.error)
         ELSE /\ Step(task_id, l, [pc |-> "saving", result |-> <<o.bytes>>])
              /\ UNCHANGED backend
  /\ UNCHANGED <<jobs, delivered, dir, http, sreq, clock, reap, dl>>

TaskSaving(task_id) ==
  /\ \E l \in At(task_id, "saving") :
       Step(task_id, l, [l EXCEPT !.pc = "open"])
  /\ update_state(task_id,
                  [progress |-> 90, message |-> <<"Saving conversion">>])
  /\ UNCHANGED <<jobs, delivered, dir, http, sreq, clock, reap, dl>>

\* result_path of the executions of a job
result_path(task_id) ==
  result_name(task_id, jobs[task_id].filename, jobs[task_id].convert_to)

OSError == <<"[Errno 28] No space left on device">>

\* open(result_path, 'wb'): creates the file or truncates it, or raises
TaskOpen(task_id) ==
  /\ \E l \in At(task_id, "open") :
       \/ /\ dir' = Put(dir, result_path(task_id),
                      [data |-> <<>>, mtime |-> clock])
          /\ Step(task_id, l, [l EXCEPT !.pc = "write"])
          /\ UNCHANGED backend
       \/ /\ task_failed(task_id, l, OSError)
          /\ UNCHANGED dir
  /\ UNCHANGED <<jobs, delivered, http, sreq, clock, reap, dl>>

\* f.write(result) and the close of the with block, or the write raises
TaskWrite(task_id) ==
  /\ \E l \in At(task_id, "write") :
       \/ /\ dir' = IF result_path(task_id) \in DOMAIN dir
                    THEN [dir EXCEPT ![result_path(task_id)] =
                            [data |-> l.result, mtime |-> clock]]
                    ELSE dir
          /\ Step(task_id, l, [l EXCEPT !.pc = "return"])
          /\ UNCHANGED backend
       \/ /\ task_failed(task_id, l, OSError)
          /\ UNCHANGED dir
  /\ UNCHANGED <<jobs, delivered, http, sreq, clock, reap, dl>>

\* return {"status": "completed", ...}
TaskReturn(task_id) ==
  /\ \E l \in At(task_id, "return") :
       task_return(task_id, l,
                   [ status        |-> "completed",
                     filename      |-> result_path(task_id),
                     file_id       |-> task_id,
                     original_name |->
                       converted_filename(jobs[task_id].filename,
                                          jobs[task_id].convert_to) ])
  /\ UNCHANGED <<jobs, delivered, dir, http, sreq, clock, reap, dl>>

---------------------------------------------------------------------------
(* api_routes/status.py: get_status.  Each listing of TEMP_DIR and each    *)
(* read of the result backend is a step of its own: workers run in other   *)
(* processes and change both between two reads.                            *)

\* the names f of os.listdir(TEMP_DIR) with f.startswith(task_id) and isfile
matching(d, task_id) == { f \in DOMAIN d : StartsWith(f, task_id) }

completed_response(task_id, f) ==
  [ status        |-> "completed",
    file_id       |-> task_id,
    filename      |-> f,
    original_name |-> RemoveFirst(f, task_id \o <<"_">>) ]

\* task_result.ready()
ready(meta) == meta.state \in {"SUCCESS", "FAILURE"}

\* an answer for a ready task that ignores what the queue carries
finished_response_opaque(meta) ==
  [status |-> "failed", error |-> <<"Unknown error">>]

\* the answer for a ready task for which no file was found
finished_response(meta) ==
  IF meta.state = "SUCCESS" THEN meta.info
  ELSE [status |-> "failed",
        error  |-> IF meta.info = None THEN <<"Unknown error">>
                   ELSE meta.info.str]

\* task_result.state.lower()
state_lower(state) ==
  CASE state = "PENDING" -> "pending"
    [] state = "SUCCESS" -> "success"
    [] state = "FAILURE" -> "failure"
    [] OTHER -> state

\* the answer for a task that is not ready
running_response(state, info) ==
  IF info = None THEN [status |-> state_lower(state)]
  ELSE [ status |-> IF "message" \in DOMAIN info THEN "processing"
                    ELSE state_lower(state),
         meta   |-> info ]

\* get_status asking the queue before it looks at the directory
get_status_queue_first(d, meta, task_id) ==
  IF ~ready(meta) THEN { running_response(meta.state, meta.info) }
  ELSE IF matching(d, task_id) # {} THEN
    { completed_response(task_id, f) : f \in matching(d, task_id) }
  ELSE { finished_response(meta) }

\* the answers of a get_status(task_id) call all of whose reads see the
\* directory d and the backend entry meta
get_status(d, meta, task_id) ==
  IF matching(d, task_id) # {} THEN
    { completed_response(task_id, f) : f \in matching(d, task_id) }
  ELSE IF ready(meta) THEN { finished_response(meta) }
  ELSE { running_response(meta.state, meta.info) }

Respond(resp) == sreq' = [sreq EXCEPT !.pc = "done", !.resp = resp]

\* os.listdir(TEMP_DIR) as the request at locals s uses it: the names that
\* start with its task id
Listed(s) == [s EXCEPT !.listed = @ \cup {matching(dir, s.task_id)}]

\* what an attribute of task_result reads: the cached meta, or the backend
Fetch(s) == IF s.meta # None THEN s.meta ELSE task_meta(s.task_id)

\* AsyncResult keeps the meta it has read only when its state is ready
Fetched(s) ==
  [s EXCEPT !.meta = IF ready(Fetch(s)) THEN Fetch(s) ELSE None,
            !.fetched = @ \cup {Fetch(s)}]

\* isinstance(task_result.info, dict)
IsDict(info) == info # None /\ "exc" \notin DOMAIN info

\* a label that is always the queue's state token
status_label_of_state(status, info) == status

\* response["status"] after the test for 'message'
status_label(status, info) ==
  IF "message" \in DOMAIN info THEN "processing" ELSE status

\* the answer of FastAPI to an exception that leaves the handler
InternalServerError == [code |-> 500, detail |-> "Internal Server Error"]

\* a handler that keeps the AsyncResult of the request before
StatusScan1_kept(task_id) ==
  /\ sreq.pc \in {"idle", "done"}
  /\ sreq' = Listed([Idle EXCEPT !.task_id = task_id,
                                 !.meta = sreq.meta,
                                 !.pc = IF matching(dir, task_id) # {}
                                        THEN "scan2" ELSE "ready"])
  /\ UNCHANGED <<jobs, delivered, backend, running, dir, http,
                 clock, reap, dl>>

\* a request arrives; the first listing (output_file_exists)
StatusScan1(task_id) ==
  /\ sreq.pc \in {"idle", "done"}
  /\ sreq' = Listed([Idle EXCEPT !.task_id = task_id,
                                 !.pc = IF matching(dir, task_id) # {}
                                        THEN "scan2" ELSE "ready"])
  /\ UNCHANGED <<jobs, delivered, backend, running, dir, http,
                 clock, reap, dl>>

\* the second listing, which looks for the file found by the first
StatusScan2 ==
  /\ sreq.pc = "scan2"
  /\ IF matching(dir, sreq.task_id) # {}
     THEN \E f \in matching(dir, sreq.task_id) :
            sreq' = [Listed(sreq) EXCEPT
                       !.pc = "done",
                       !.resp = completed_response(sreq.task_id, f)]
     ELSE sreq' = [Listed(sreq) EXCEPT !.pc = "ready"]
  /\ UNCHANGED <<jobs, delivered, backend, running, dir, http,
                 clock, reap, dl>>

\* task_result.ready()
StatusReady ==
  /\ sreq.pc = "ready"
  /\ sreq' = [Fetched(sreq) EXCEPT
                !.pc = IF ready(Fetch(sreq)) THEN "scan3" ELSE "state"]
  /\ UNCHANGED <<jobs, delivered, backend, running, dir, http,
                 clock, reap, dl>>

\* the listing after ready()
StatusScan3 ==
  /\ sreq.pc = "scan3"
  /\ sreq' = IF matching(dir, sreq.task_id) # {}
             THEN [Listed(sreq) EXCEPT !.pc = "scan4"]
             ELSE [Listed(sreq) EXCEPT !.pc = "done",
                                       !.resp = finished_response(sreq.meta)]
  /\ UNCHANGED <<jobs, delivered, backend, running, dir, http,
                 clock, reap, dl>>

\* the search for the file after ready(), then successful() and result
StatusScan4 ==
  /\ sreq.pc = "scan4"
  /\ IF matching(dir, sreq.task_id) # {}
     THEN \E f \in matching(dir, sreq.task_id) :
            sreq' = [Listed(sreq) EXCEPT
                       !.pc = "done",
                       !.resp = completed_response(sreq.task_id, f)]
     ELSE sreq' = [Listed(sreq) EXCEPT !.pc = "done",
                                       !.resp = finished_response(sreq.meta)]
  /\ UNCHANGED <<jobs, delivered, backend, running, dir, http,
                 clock, reap, dl>>

\* "status": task_result.state.lower()
StatusState ==
  /\ sreq.pc = "state"
  /\ sreq' = [Fetched(sreq) EXCEPT
                !.pc = "hasinfo",
                !.status = state_lower(Fetch(sreq).state)]
  /\ UNCHANGED <<jobs, delivered, backend, running, dir, http,
                 clock, reap, dl>>

\* hasattr(task_result, 'info'): reads the attribute and drops the value
StatusHasInfo ==
  /\ sreq.pc = "hasinfo"
  /\ sreq' = [Fetched(sreq) EXCEPT !.pc = "info"]
  /\ UNCHANGED <<jobs, delivered, backend, running, dir, http,
                 clock, reap, dl>>

\* ... and task_result.info: without info the answer is the status alone
StatusInfo ==
  /\ sreq.pc = "info"
  /\ sreq' = IF Fetch(sreq).info = None
             THEN [Fetched(sreq) EXCEPT !.pc = "done",
                                        !.resp = [status |-> sreq.status]]
             ELSE [Fetched(sreq) EXCEPT !.pc = "isdict"]
  /\ UNCHANGED <<jobs, delivered, backend, running, dir, http,
                 clock, reap, dl>>

\* isinstance(task_result.info, dict)
StatusIsDict ==
  /\ sreq.pc = "isdict"
  /\ sreq' = [Fetched(sreq) EXCEPT
                !.pc = IF IsDict(Fetch(sreq).info) THEN "message" ELSE "meta"]
  /\ UNCHANGED <<jobs, delivered, backend, running, dir, http,
                 clock, reap, dl>>

\* 'message' in task_result.info: a TypeError when info is not a container
StatusMessage ==
  /\ sreq.pc = "message"
  /\ sreq' = IF IsDict(Fetch(sreq).info)
             THEN [Fetched(sreq) EXCEPT
                     !.pc = "meta",
                     !.status = status_label(sreq.status, Fetch(sreq).info)]
             ELSE [Fetched(sreq) EXCEPT !.pc = "done",
                                        !.resp = InternalServerError]
  /\ UNCHANGED <<jobs, delivered, backend, running, dir, http,
                 clock, reap, dl>>

\* response["meta"] = task_result.info; return response
StatusMeta ==
  /\ sreq.pc = "meta"
  /\ sreq' = [Fetched(sreq) EXCEPT
                !.pc = "done",
                !.resp = [status |-> sreq.status, meta |-> Fetch(sreq).info]]
  /\ UNCHANGED <<jobs, delivered, backend, running, dir, http,
                 clock, reap, dl>>

\* the pool loses the process of an execution (killed, out of memory): the
\* queue marks the task failed with WorkerLostError
WorkerLostError ==
  Raised("WorkerLostError", <<"Worker exited prematurely: signal 9 (SIGKILL)">>)

WorkerLost(task_id) ==
  /\ task_id \in DOMAIN jobs
  /\ \E l \in BagToSet(running[task_id]) :
       running' = [running EXCEPT ![task_id] = @ (-) SetToBag({l})]
  /\ backend' = Put(backend, task_id,
                    [state |-> "FAILURE", info |-> WorkerLostError])
  /\ UNCHANGED <<jobs, delivered, dir, http, sreq, clock, reap, dl>>

\* cleanup_temp_files unlinks a file it found older than its timeout (ages
\* are not tracked: any file may be that old)
cleanup_unlink(f) ==
  /\ f \in DOMAIN dir
  /\ dir' = Drop(dir, f)
  /\ UNCHANGED <<jobs, delivered, backend, running, http, sreq,
                 clock, reap, dl>>


---------------------------------------------------------------------------
(* Time.  time.time() and the modification times of the files are seconds; *)
(* the clock advances in steps of half the reaper's timeout.               *)

\* timeout = 15 * 60
timeout == 15 * 60

Quantum == timeout \div 2

MaxTicks == 3        \* steps of the clock

Tick ==
  /\ clock + Quantum <= MaxTicks * Quantum
  /\ clock' = clock + Quantum
  /\ UNCHANGED <<jobs, delivered, backend, running, dir, http, sreq, reap, dl>>

---------------------------------------------------------------------------
(* workers/tasks.py: cleanup_temp_files, one action per system call.       *)
(* Path("temp_files") is resolved against the working directory of the     *)
(* worker, src/, where TEMP_DIR lies; the directory holds regular files    *)
(* only (nothing in the program creates a subdirectory), so is_dir() is    *)
(* False for every entry.                                                  *)

\* the pass ends: its outcome is kept as prev, with that of the pass before
EndPass(outcome) ==
  [ NoPass EXCEPT !.prev = [ result |-> outcome,
                             current_time |-> reap.current_time,
                             before |-> IF reap.prev = None THEN None
                                        ELSE [reap.prev EXCEPT !.before = None] ],
                  !.evicted = reap.evicted ]

\* temp_dir.exists(); deleted_count = 0; current_time = time.time();
\* temp_dir.iterdir() lists the directory
ReapStart ==
  /\ reap.pc = "idle"
  /\ reap' = [reap EXCEPT !.pc = "loop", !.current_time = clock,
                          !.deleted_count = 0, !.todo = DOMAIN dir]
  /\ UNCHANGED <<jobs, delivered, backend, running, dir, http, sreq, clock, dl>>

\* the loop with is_file() False for every entry: nothing is looked at
ReapIsFile_skipping(item) ==
  /\ reap.pc = "loop"
  /\ item \in reap.todo
  /\ reap' = [reap EXCEPT !.todo = @ \ {item}, !.item = <<>>, !.pc = "loop"]
  /\ UNCHANGED <<jobs, delivered, backend, running, dir, http, sreq, clock, dl>>

\* for item in ...: if item.is_file(): ... elif item.is_dir(): ...
\* (both False for an entry that has vanished)
ReapIsFile(item) ==
  /\ reap.pc = "loop"
  /\ item \in reap.todo
  /\ reap' = [reap EXCEPT !.todo = @ \ {item},
                          !.item = IF item \in DOMAIN dir THEN item ELSE <<>>,
                          !.pc = IF item \in DOMAIN dir THEN "stat" ELSE "loop"]
  /\ UNCHANGED <<jobs, delivered, backend, running, dir, http, sreq, clock, dl>>

FileNotFoundError == <<"[Errno 2] No such file or directory">>

\* the comparison with every entry of age timeout or more taken as expired
ReapStat_inclusive ==
  /\ reap.pc = "stat"
  /\ IF reap.item \in DOMAIN dir
     THEN LET file_age == reap.current_time - dir[reap.item].mtime
          IN  reap' = [reap EXCEPT
                         !.file_age = IF file_age >= timeout THEN file_age ELSE 0,
                         !.item = IF file_age >= timeout THEN @ ELSE <<>>,
                         !.pc = IF file_age >= timeout THEN "unlink" ELSE "loop"]
     ELSE reap' = EndPass(Raised("FileNotFoundError", FileNotFoundError))
  /\ UNCHANGED <<jobs, delivered, backend, running, dir, http, sreq, clock, dl>>

\* file_age = current_time - item.stat().st_mtime; if file_age > timeout.
\* stat() is outside the try: for an entry that has vanished it raises and
\* the task ends with that exception
ReapStat ==
  /\ reap.pc = "stat"
  /\ IF reap.item \in DOMAIN dir
     THEN LET file_age == reap.current_time - dir[reap.item].mtime
          IN  reap' = [reap EXCEPT
                         !.file_age = IF file_age > timeout THEN file_age ELSE 0,
                         !.item = IF file_age > timeout THEN @ ELSE <<>>,
                         !.pc = IF file_age > timeout THEN "unlink" ELSE "loop"]
     ELSE reap' = EndPass(Raised("FileNotFoundError", FileNotFoundError))
  /\ UNCHANGED <<jobs, delivered, backend, running, dir, http, sreq, clock, dl>>

\* an unlink that counts the entry and leaves it in place
ReapUnlink_counted ==
  /\ reap.pc = "unlink"
  /\ reap' = [reap EXCEPT !.deleted_count = @ + 1, !.pc = "loop",
                          !.item = <<>>, !.file_age = 0]
  /\ UNCHANGED <<jobs, delivered, backend, running, dir, http, sreq, clock, dl>>

\* try: item.unlink(); deleted_count += 1; except Exception: print(...)
ReapUnlink ==
  /\ reap.pc = "unlink"
  /\ IF reap.item \in DOMAIN dir
     THEN /\ dir' = Drop(dir, reap.item)
          /\ reap' = [reap EXCEPT !.deleted_count = @ + 1,
                                  !.evicted = @ \cup {reap.item},
                                  !.pc = "loop", !.item = <<>>, !.file_age = 0]
     ELSE /\ UNCHANGED dir
          /\ reap' = [reap EXCEPT !.pc = "loop", !.item = <<>>, !.file_age = 0]
  /\ UNCHANGED <<jobs, delivered, backend, running, http, sreq, clock, dl>>

\* return {"status": "success", "deleted_count": ..., "timestamp": ...}
ReapReturn ==
  /\ reap.pc = "loop"
  /\ reap.todo = {}
  /\ reap' = EndPass([ status        |-> "success",
                       deleted_count |-> reap.deleted_count,
                       timestamp     |-> clock ])
  /\ UNCHANGED <<jobs, delivered, backend, running, dir, http, sreq, clock, dl>>

\* the pass of the cleanup task
Reaper ==
  \/ ReapStart
  \/ \E item \in reap.todo : ReapIsFile(item)
  \/ ReapStat
  \/ ReapUnlink
  \/ ReapReturn

\* item.unlink() in a pass that another worker runs at the same time, for a
\* file that pass found older than its timeout
concurrent_unlink(f) ==
  /\ f \in DOMAIN dir
  /\ clock - dir[f].mtime > timeout
  /\ dir' = Drop(dir, f)
  /\ reap' = [reap EXCEPT !.evicted = @ \cup {f}]
  /\ UNCHANGED <<jobs, delivered, backend, running, http, sreq, clock, dl>>

\* the artifacts of two finished jobs
StoredNames ==
  { <<"a","1","_","p","h","o","t","o",".","w","e","b","p">>,
    <<"a","2","_","s","o","n","g",".","w","a","v">> }

\* with open(result_path, 'wb') as f: f.write(result), by some execution
artifact_written(f) ==
  /\ f \in StoredNames
  /\ dir' = Put(dir, f, [data |-> <<"R","I","F","F">>, mtime |-> clock])
  /\ UNCHANGED <<jobs, delivered, backend, running, http, sreq, clock, reap, dl>>

---------------------------------------------------------------------------
(* api_routes/result.py: download_result.  The listing, the existence      *)
(* check and the sending of the file are steps of their own.               *)

\* the request ends with answer resp
Answered(resp) ==
  [dl EXCEPT !.pc = "idle", !.todo = {}, !.file = <<>>, !.resp = resp,
             !.steady = dl.steady /\ dir = dl.saw]

NotFound == [code |-> 404, detail |-> "File not found or expired"]

\* for file in os.listdir(TEMP_DIR): the names that start with file_id are
\* looked at one by one; with none the loop ends and 404 is raised
DownloadList(file_id) ==
  /\ dl.pc = "idle"
  /\ LET found == { file \in DOMAIN dir : StartsWith(file, file_id) }
         prev  == IF dl.resp = None THEN None
                  ELSE [ file_id |-> dl.file_id, resp |-> dl.resp,
                         saw |-> dl.saw, steady |-> dl.steady ]
     IN  dl' = [ pc      |-> IF found = {} THEN "idle" ELSE "exists",
                 file_id |-> file_id,
                 todo    |-> found,
                 file    |-> <<>>,
                 saw     |-> dir,
                 steady  |-> TRUE,
                 resp    |-> IF found = {} THEN NotFound ELSE None,
                 prev    |-> prev ]
  /\ UNCHANGED <<jobs, delivered, backend, running, dir, http, sreq, clock, reap>>

\* if os.path.exists(file_path): return FileResponse(...); else the loop
\* goes on, and raises 404 after the last name
DownloadExists(file) ==
  /\ dl.pc = "exists"
  /\ file \in dl.todo
  /\ dl' = IF file \in DOMAIN dir
           THEN [dl EXCEPT !.pc = "send", !.file = file, !.todo = {},
                           !.steady = @ /\ dir = dl.saw]
           ELSE IF dl.todo = {file} THEN Answered(NotFound)
           ELSE [dl EXCEPT !.todo = @ \ {file}, !.steady = @ /\ dir = dl.saw]
  /\ UNCHANGED <<jobs, delivered, backend, running, dir, http, sreq, clock, reap>>

\* a FileResponse that removes the file once it has been sent
DownloadSend_consuming ==
  /\ dl.pc = "send"
  /\ dl.file \in DOMAIN dir
  /\ dl' = Answered([ code |-> 200, filename |-> dl.file,
                      body |-> dir[dl.file].data ])
  /\ dir' = Drop(dir, dl.file)
  /\ UNCHANGED <<jobs, delivered, backend, running, http, sreq, clock, reap>>

\* FileResponse(path=file_path, filename=file) is sent after the handler
\* has returned: it stats and opens the path then, and raises RuntimeError
\* ("File at path ... does not exist.") when the file is gone: a 500
DownloadSend ==
  /\ dl.pc = "send"
  /\ dl' = IF dl.file \in DOMAIN dir
           THEN Answered([ code |-> 200, filename |-> dl.file,
                           body |-> dir[dl.file].data ])
           ELSE Answered([ code |-> 500,
                           exc  |-> Raised("RuntimeError", dl.file) ])
  /\ UNCHANGED <<jobs, delivered, backend, running, dir, http, sreq, clock, reap>>

\* one /result request at a time
Download ==
  \/ \E file_id \in TaskIds : DownloadList(file_id)
  \/ \E file \in dl.todo : DownloadExists(file)
  \/ DownloadSend

---------------------------------------------------------------------------

\* the worker pool
Work ==
  \/ \E task_id \in TaskIds : TaskPrepare(task_id)
  \/ \E task_id \in TaskIds : TaskStart(task_id)
  \/ \E task_id \in TaskIds : TaskConverting(task_id)
  \/ \E task_id \in TaskIds : TaskDispatch(task_id)
  \/ \E task_id \in TaskIds : TaskSaving(task_id)
  \/ \E task_id \in TaskIds : TaskOpen(task_id)
  \/ \E task_id \in TaskIds : TaskWrite(task_id)
  \/ \E task_id \in TaskIds : TaskReturn(task_id)

\* one /status request at a time
Status ==
  \/ \E task_id \in QueryIds : StatusScan1(task_id)
  \/ StatusScan2
  \/ StatusReady
  \/ StatusScan3
  \/ StatusScan4
  \/ StatusState
  \/ StatusHasInfo
  \/ StatusInfo
  \/ StatusIsDict
  \/ StatusMessage
  \/ StatusMeta

\* The pipeline: accepted uploads and the workers.
Next ==
  \/ \E req \in Uploads : convert_file(req)
  \/ Work

Spec == Init /\ [][Next]_vars

\* The gate: uploads that fail a gate among the work of accepted ones.
NextGate ==
  \/ \E req \in GateUploads : convert_file(req)
  \/ Work

SpecGate == Init /\ [][NextGate]_vars

\* The resolver: /convert requests over the target formats and forms.
NextSettings == \E req \in SettingsUploads : convert_file(req)

SpecSettings == Init /\ [][NextSettings]_vars

\* The intake gate: one /convert request against an empty queue.
NextIntake == \E req \in IntakeUploads : jobs = <<>> /\ convert_file(req)

SpecIntake == Init /\ [][NextIntake]_vars

\* Naming: one /convert request with a declared name of RawNames.
NextNames == \E req \in NameUploads : jobs = <<>> /\ convert_file(req)

SpecNames == Init /\ [][NextNames]_vars

\* the /convert request of the status runs
StatusUploads == { Request(PhotoJPG, JpegBytes, Webp, FormQuality80) }

\* The readers: /status and /result requests, call by call, against the
\* work on one job that the broker delivers once.
NextReads ==
  \/ \E req \in StatusUploads : jobs = <<>> /\ convert_file(req)
  \/ Work /\ TotalDelivered' <= 1
  \/ Status
  \/ Download

SpecReads == Init /\ [][NextReads]_vars

\* deliveries of the one job of the store runs: the first and a redelivery
StoreDeliveries == 2

\* The store: the work on one job, the clock, the periodic reaper and one
\* /result request, all against the one artifact directory.  The runs take
\* the redelivery after the earlier execution has ended.
NextStore ==
  \/ \E req \in StatusUploads : jobs = <<>> /\ convert_file(req)
  \/ /\ Work
     /\ TotalDelivered' <= StoreDeliveries
     /\ \A task_id \in DOMAIN running' :
          BagCardinality(running'[task_id]) <= 1
  \/ Tick
  \/ Reaper
  \/ Download /\ dl'.prev = None

SpecStore == Init /\ [][NextStore]_vars

\* The cleanup task: passes over a directory that executions write
\* artifacts to while time goes by and another worker runs a pass too.
NextReaper ==
  \/ \E f \in StoredNames : artifact_written(f)
  \/ Tick
  \/ Reaper
  \/ \E f \in DOMAIN dir : concurrent_unlink(f)

SpecReaper == Init /\ [][NextReaper]_vars

\* The status handler, read by read, against the work on one job, lost
\* workers and the cleanup task.
NextStatus ==
  \/ \E req \in StatusUploads : jobs = <<>> /\ convert_file(req)
  \/ Work
  \/ \E task_id \in TaskIds : WorkerLost(task_id)
  \/ \E f \in DOMAIN dir : cleanup_unlink(f)
  \/ Status

SpecStatus == Init /\ [][NextStatus]_vars


---------------------------------------------------------------------------
(* Properties.                                                             *)

\* the answers of get_status(task_id) in the current state
StatusNow(task_id) == get_status(dir, task_meta(task_id), task_id)

\* C1: whenever TEMP_DIR holds a file whose name starts with the task id,
\* get_status answers completed, whatever the queue says about the task
\* (also while the queue still reports it as processing).
C1_ArtifactMeansCompleted ==
  \A task_id \in QueryIds :
    matching(dir, task_id) # {} =>
      \A r \in StatusNow(task_id) : r.status = "completed"

\* C1 witness: an artifact is on disk while the queue reports its task as
\* processing, so the two sources disagree
C1_Witness ==
  \E task_id \in DOMAIN jobs :
    /\ matching(dir, task_id) # {}
    /\ task_meta(task_id).state = "processing"
    /\ \A r \in StatusNow(task_id) : r.status = "completed"

\* all four gates of convert_file pass for the request
GatesPass(req) ==
  /\ ~is_suspicious_filename(req.filename)
  /\ ~check_suspicious_signatures(req.contents)
  /\ ~check_mime_type(req.contents)
  /\ req.contents.size <= max_size(req.contents.mime, req.convert_to)

\* the requests that pass all four gates
Passes == [req \in AllUploads |-> GatesPass(req)]

\* C2: a /convert request enqueues a job and returns its id only when the
\* filename screening, the signature screening, the content-type check and
\* the size check have all passed; a request that fails a gate gets 400 or
\* 413 without a job id and leaves the queue, the result backend, the
\* executions and TEMP_DIR as they were; and the queue grows in no other way.
C2_NoWorkBeforeGate ==
  [][ /\ http' # http =>
           LET req == http'.request
               ans == http'.response
           IN  IF Passes[req]
               THEN /\ ans.code = 200
                    /\ ans.celery_id \notin DOMAIN jobs
                    /\ DOMAIN jobs' = DOMAIN jobs \cup {ans.celery_id}
               ELSE /\ ans.code \in {400, 413}
                    /\ "celery_id" \notin DOMAIN ans
                    /\ UNCHANGED <<jobs, delivered, backend, running, dir>>
      /\ jobs' # jobs => http' # http /\ Passes[http'.request]
    ]_vars

\* C2 witness: evil.exe.jpg was answered 400 while the queue and TEMP_DIR
\* hold the work of an accepted upload
C2_Witness ==
  /\ http.request # None
  /\ http.request.filename = EvilExeJpg
  /\ http.response.code = 400
  /\ jobs # <<>>
  /\ dir # <<>>

\* the structured result of a task that caught an exception
FailedResult(error) == [status |-> "failed", error |-> error]

\* the exceptions the converter called for a job with arguments args can
\* raise
ErrorsOf ==
  [args \in { ArgsOf[req] : req \in AllUploads } |->
     IF dispatch(task_ext(args.filename)).kind # "call" THEN {}
     ELSE { o.error : o \in
              { x \in converter_outcomes(args.filename, args.contents,
                                         args.convert_to,
                                         args.conversion_settings) :
                  x.kind = "raise" } }]

\* the exceptions the converter called for the job of task_id can raise
ConverterErrors(task_id) == ErrorsOf[jobs[task_id]]

\* this step, an execution of task_id ends inside its converter call
ConverterRaises(task_id) ==
  /\ task_id \in DOMAIN jobs
  /\ ConverterErrors(task_id) # {}
  /\ \E l \in At(task_id, "dispatch") :
       running' = [running EXCEPT ![task_id] = @ (-) SetToBag({l})]

\* the answers of get_status(task_id) right after this step
StatusNext(task_id) == get_status(dir', backend'[task_id], task_id)

\* C3 as stated: whenever the converter called by convert_file_task raises,
\* the task returns {status: failed, error: <message>}, its queue state is
\* not the failure state, and get_status then reports failed with that error.
C3_ConverterFailureReported ==
  [][ \A task_id \in TaskIds :
        ConverterRaises(task_id) =>
          \E e \in ConverterErrors(task_id) :
            /\ backend'[task_id] =
                 [state |-> "SUCCESS", info |-> FailedResult(e)]
            /\ StatusNext(task_id) = { FailedResult(e) }
    ]_vars

\* C3 amended: whenever the converter raises, the task returns
\* {status: failed, error: <message>} with a queue state that is not the
\* failure state; get_status then reports failed with that error unless
\* TEMP_DIR holds a file whose name starts with the job id (left by another
\* delivery of the job), in which case it reports completed.
C3_ConverterFailureReportedUnlessArtifact ==
  [][ \A task_id \in TaskIds :
        ConverterRaises(task_id) =>
          \E e \in ConverterErrors(task_id) :
            /\ backend'[task_id] =
                 [state |-> "SUCCESS", info |-> FailedResult(e)]
            /\ IF matching(dir', task_id) = {}
               THEN StatusNext(task_id) = { FailedResult(e) }
               ELSE \A r \in StatusNext(task_id) : r.status = "completed"
    ]_vars

\* C3 witness: the converter of a job raised, the task returned the failed
\* result and get_status reports it
C3_Witness ==
  \E task_id \in DOMAIN jobs :
    /\ ConverterErrors(task_id) # {}
    /\ task_meta(task_id).state = "SUCCESS"
    /\ task_meta(task_id).info \in
         { FailedResult(e) : e \in ConverterErrors(task_id) }
    /\ StatusNow(task_id) = { task_meta(task_id).info }

\* this step, an execution of task_id ends on an OSError of open or write
StorageFails(task_id) ==
  /\ task_id \in DOMAIN jobs
  /\ \E l \in At(task_id, "open") \cup At(task_id, "write") :
       running' = [running EXCEPT ![task_id] = @ (-) SetToBag({l})]

\* C4 as stated: when writing the artifact fails in the worker, at open or
\* during the write, get_status reports the job failed, never completed.
C4_StorageErrorFatal ==
  [][ \A task_id \in TaskIds :
        StorageFails(task_id) =>
          \A r \in StatusNext(task_id) : r.status = "failed"
    ]_vars

\* {job_id}_{stem}.{target_format} for the job of task_id
ArtifactName(task_id) ==
  task_id \o <<"_">> \o RsplitHead(jobs[task_id].filename)
          \o <<".">> \o jobs[task_id].convert_to

\* this step is a step of an execution of task_id
ExecutionStep(task_id) ==
  /\ task_id \in DOMAIN jobs
  /\ running'[task_id] # running[task_id]

\* C5: however often the broker delivers a job, every step of every
\* execution leaves all of TEMP_DIR except the one path
\* {job_id}_{stem}.{target_format} as it was (so no other job's artifact is
\* touched), and afterwards TEMP_DIR holds at most one file whose name
\* starts with the job id.
C5_OneArtifactPathPerJob ==
  [][ \A task_id \in TaskIds :
        ExecutionStep(task_id) =>
          /\ \A f \in (DOMAIN dir \cup DOMAIN dir') \ {ArtifactName(task_id)} :
               /\ f \in DOMAIN dir
               /\ f \in DOMAIN dir'
               /\ dir'[f] = dir[f]
          /\ Cardinality(matching(dir', task_id)) <= 1
    ]_vars

\* C5 witness: a job was delivered twice and both executions got as far as
\* the write, while the artifact of another job is in TEMP_DIR
C5_Witness ==
  \E task_id \in DOMAIN jobs, other \in DOMAIN jobs :
    /\ other # task_id
    /\ delivered[task_id] = 2
    /\ BagCardinality(running[task_id]) = 2
    /\ At(task_id, "write") = BagToSet(running[task_id])
    /\ ArtifactName(task_id) \in DOMAIN dir
    /\ ArtifactName(other) \in DOMAIN dir

\* C6: in every reachable state every file of TEMP_DIR is named
\* {job_id}_{stem}.{target_format} for a job the queue holds, and so starts
\* with that job's id.
C6_ArtifactNamedByJob ==
  \A f \in DOMAIN dir :
    \E task_id \in DOMAIN jobs :
      /\ f = ArtifactName(task_id)
      /\ StartsWith(f, task_id)

\* C6 witness: the workers have written an artifact for each of two jobs
C6_Witness ==
  /\ Cardinality(DOMAIN jobs) = 2
  /\ \A task_id \in DOMAIN jobs :
       \E f \in matching(dir, task_id) : dir[f].data # <<>>

\* the category of a settings bundle, read off the fields it carries
BundleCategory(bundle) ==
  IF "compression_level" \in DOMAIN bundle THEN "audio"
  ELSE IF "crf" \in DOMAIN bundle THEN "video"
  ELSE IF "dpi" \in DOMAIN bundle THEN "document"
  ELSE "image"

\* C7 as stated: whenever the worker calls a converter for an accepted job,
\* the settings bundle it hands over is the variant of that converter's
\* category, for every combination of source extension and target format.
C7_BundleMatchesConverter ==
  \A task_id \in DOMAIN jobs :
    LET called == dispatch(task_ext(jobs[task_id].filename))
    IN  (At(task_id, "dispatch") # {} /\ called.kind = "call") =>
          BundleCategory(jobs[task_id].conversion_settings) = called.converter

\* the options of the category of a target format
TargetOptions(convert_to) ==
  IF Lower(convert_to) \in audio_formats THEN AudioOptions
  ELSE IF Lower(convert_to) \in video_formats THEN VideoOptions
  ELSE IF Lower(convert_to) \in doc_formats THEN DocOptions
  ELSE ImageOptions

\* C8: the bundle get_conversion_settings resolves for a /convert request
\* holds only values of the options of the target format's category (audio_*
\* for audio targets, video_* for video targets, dpi and doc_quality for
\* document targets, the image options for every other target), and it is
\* the same bundle when any option of another category is changed.
C8_BundleFromTargetCategoryOnly ==
  (http.response # None /\ http.response.code = 200) =>
    LET req    == http.request
        bundle == jobs[http.response.celery_id].conversion_settings
        own    == TargetOptions(req.convert_to)
    IN  /\ \A field \in DOMAIN bundle :
             bundle[field] \in { req.form_data[k] : k \in own }
        /\ \A k \in FormFields \ own :
             get_conversion_settings(
               req.convert_to, [req.form_data EXCEPT ![k] = "changed"]) = bundle

\* C8 witness: a request for webp whose form sets video options was resolved
\* to an image bundle without them
C8_Witness ==
  /\ http.response # None
  /\ http.response.code = 200
  /\ http.request.convert_to = Webp
  /\ http.request.form_data = FormVideo
  /\ DOMAIN jobs[http.response.celery_id].conversion_settings = ImageOptions
  /\ jobs[http.response.celery_id].conversion_settings.quality = "None"

\* the category whose membership table holds a source extension
SourceCategory(ext) ==
  IF ext \in SUPPORTED_EXTENSIONS["images"] THEN "image"
  ELSE IF ext \in audio_formats THEN "audio"
  ELSE IF ext \in video_formats THEN "video"
  ELSE IF ext \in doc_formats THEN "document"
  ELSE "none"

\* C9 as stated: for a job whose source extension is in the image, audio,
\* video or document table, convert_file_task calls the converter of that
\* category, whatever the target format.
C9_DispatchBySourceCategory ==
  \A task_id \in DOMAIN jobs :
    LET ext == task_ext(jobs[task_id].filename)
    IN  (At(task_id, "dispatch") # {} /\ SourceCategory(ext) # "none") =>
          dispatch(ext) = [kind |-> "call", converter |-> SourceCategory(ext)]

\* C10 as stated: a job whose source extension is in no category table is
\* accepted by /convert and, once its task has returned, has the failed
\* result whose error is the unsupported-type error for that extension.
C10_UnsupportedTypeFailsInWorker ==
  \A task_id \in DOMAIN jobs :
    LET ext == task_ext(jobs[task_id].filename)
    IN  (SourceCategory(ext) = "none" /\ task_meta(task_id).state = "SUCCESS") =>
          task_meta(task_id).info =
            FailedResult(<<"Unsupported file type: .">> \o ext)

\* the /status request answers in this step from one of the positions pcs
Answers(pcs) == sreq.pc \in pcs /\ sreq'.pc = "done"

\* the answer resp is a status answer with status st
Reports(resp, st) == "status" \in DOMAIN resp /\ resp.status = st

\* C11: a get_status call whose first scan found no file and to which the
\* queue reported the task ready lists the directory again before it
\* answers; it answers completed, naming a file of the task, if that listing
\* shows one, and otherwise the result the queue carries for a successful
\* task and {status: failed, error: <the carried reason>} for a failed one.
C11_ReadyWithoutArtifact ==
  [][ /\ (sreq.pc = "ready" /\ sreq' # sreq /\ ready(task_meta(sreq.task_id)))
         => (sreq'.pc = "scan3" /\ sreq'.meta = task_meta(sreq.task_id))
      /\ Answers({"scan3", "scan4"}) =>
           IF matching(dir, sreq.task_id) # {}
           THEN /\ Reports(sreq'.resp, "completed")
                /\ sreq'.resp.file_id = sreq.task_id
                /\ sreq'.resp.filename \in matching(dir, sreq.task_id)
           ELSE IF sreq.meta.state = "SUCCESS"
           THEN sreq'.resp = sreq.meta.info
           ELSE sreq'.resp = [status |-> "failed", error |-> sreq.meta.info.str]
    ]_vars

\* C11 witness: a call saw no file at first, was told the task is ready,
\* found a file when it listed the directory again and answered completed
C11_Witness ==
  /\ sreq.pc = "done"
  /\ {} \in sreq.listed
  /\ sreq.meta # None
  /\ Reports(sreq.resp, "completed")

\* C12: a get_status call that found no file and to which every read of the
\* queue showed the task not ready answers with the metadata the worker
\* last published, and with status processing whenever that metadata
\* carries a message, whatever state token it read; without any metadata it
\* answers with the state token alone.
C12_RunningJobMetadata ==
  [][ (/\ Answers({"info", "message", "meta"})
       /\ \A m \in sreq'.fetched : ~ready(m)) =>
        LET published == task_meta(sreq.task_id).info
        IN  IF published = None
            THEN sreq'.resp = [status |-> "pending"]
            ELSE /\ "meta" \in DOMAIN sreq'.resp
                 /\ sreq'.resp.meta = published
                 /\ "message" \in DOMAIN published =>
                      Reports(sreq'.resp, "processing")
    ]_vars

\* C12 witness: a call that read the state token PENDING and then the
\* worker's progress metadata answered processing with that metadata
C12_Witness ==
  /\ sreq.pc = "done"
  /\ \E m \in sreq.fetched : m.state = "PENDING"
  /\ Reports(sreq.resp, "processing")
  /\ "meta" \in DOMAIN sreq.resp
  /\ "progress" \in DOMAIN sreq.resp.meta
  /\ sreq.resp.meta.progress = 50

\* a directory that lists exactly the names of F
AsDir(F) == [f \in F |-> [data |-> <<>>, mtime |-> 0]]

\* C13: the steps of get_status change nothing but the locals of the
\* request; a request starts with fresh locals, whatever the request before
\* it read or answered; and the answer of a call all of whose listings and
\* all of whose queue reads saw the same thing is the one answer that
\* get_status has for that directory and that queue entry.
C13_StatusDerived ==
  [][ sreq' # sreq =>
        /\ UNCHANGED <<jobs, delivered, backend, running, dir, http>>
        /\ sreq.pc \in {"idle", "done"} =>
             /\ sreq'.meta = None
             /\ sreq'.status = None
             /\ sreq'.resp = None
             /\ sreq'.fetched = {}
             /\ sreq'.listed = {matching(dir, sreq'.task_id)}
        /\ (/\ sreq'.pc = "done"
            /\ sreq'.task_id \in TaskIds
            /\ Cardinality(sreq'.listed) = 1
            /\ Cardinality(sreq'.fetched) <= 1) =>
             \A F \in sreq'.listed :
               \A m \in IF sreq'.fetched = {} THEN {task_meta(sreq'.task_id)}
                        ELSE sreq'.fetched :
                 get_status(AsDir(F), m, sreq'.task_id) = {sreq'.resp}
    ]_vars

\* C13 witness: a call is answered failed from what the queue carries, after
\* a call before it had been answered, and all its reads saw one state
C13_Witness ==
  /\ sreq.pc = "done"
  /\ sreq.task_id \in DOMAIN jobs
  /\ sreq.listed = {{}}
  /\ Cardinality(sreq.fetched) = 1
  /\ Reports(sreq.resp, "failed")
  /\ get_status(dir, task_meta(sreq.task_id), sreq.task_id) = {sreq.resp}

\* C14: for a filename that matches a denylisted pattern after lower-casing
\* (a denylisted final extension, a denylisted extension followed by another
\* one, or an embedded token), the only call convert_file makes is the
\* filename screening: it answers 400 without having sanitized the name,
\* read the content or run another gate, and nothing is enqueued.
C14_FilenameScreeningFirst ==
  [][ (http' # http /\ is_suspicious_filename(http'.request.filename)) =>
        /\ http'.calls = <<"is_suspicious_filename">>
        /\ http'.response = [code |-> 400, detail |-> "Unallowed filename."]
        /\ UNCHANGED <<jobs, delivered, backend, running, dir>>
    ]_vars

\* C14 witness: evil.exe.jpg with the content of an executable was answered
\* 400 after the filename screening alone
C14_Witness ==
  /\ http.request # None
  /\ http.request.filename = EvilExeJpg
  /\ http.request.contents = ExeBytes
  /\ http.calls = <<"is_suspicious_filename">>
  /\ http.response.code = 400

\* C15: sanitization is idempotent: the filename convert_file hands to the
\* task, sanitize_filename(x), is left unchanged by sanitizing it again, for
\* every declared name x (empty, all punctuation, ending in a dot, with an
\* upper-case or over-long extension, outside ASCII).
C15_SanitizeIdempotent ==
  \A task_id \in DOMAIN jobs :
    sanitize_filename(jobs[task_id].filename) = jobs[task_id].filename

\* the sniffed type matches a prefix of the allow-list
AllowListed(mime) ==
  \E prefix \in ALLOWED_MIME_PREFIXES : StartsWith(mime, prefix)

\* C16: an upload whose MIME type sniffed from the content matches none of
\* the allow-listed prefixes is answered 400 and never enqueued, whatever
\* its filename and target format: every request with the same content is
\* answered 400, so the declared name has no part in the sniffed type.
C16_ContentTypeAllowList ==
  [][ (http' # http /\ ~AllowListed(http'.request.contents.mime)) =>
        /\ http'.response.code = 400
        /\ UNCHANGED <<jobs, delivered, backend, running, dir>>
        /\ \A req \in IntakeUploads :
             req.contents = http'.request.contents =>
               GateAnswer[req].code = 400
    ]_vars

\* C16 witness: a ZIP archive named tiny.mp4 with target mp4 got as far as
\* check_mime_type and was answered 400
C16_Witness ==
  /\ http.request # None
  /\ http.request.filename = TinyMp4
  /\ http.request.contents = ZipBytes
  /\ http.request.convert_to = Mp4
  /\ http.calls[Len(http.calls)] = "check_mime_type"
  /\ http.response.code = 400
  /\ jobs = <<>>

\* C17: scenario C: a small plain-text file named tiny.mp4 with target mp4
\* is answered 400 at /convert and no job is enqueued for it.
C17_ScenarioC ==
  (/\ http.request # None
   /\ http.request.filename = TinyMp4
   /\ http.request.contents = TextBytes
   /\ http.request.convert_to = Mp4)
  => (http.response.code = 400 /\ jobs = <<>>)

\* the signatures the screening knows
KnownSignatures ==
  { <<"M","Z">>, <<"0x7F","E","L","F">>, <<"#","!">>,
    <<"<","?","p","h","p">>, <<"<","s","c","r","i","p","t">> }

\* a known signature lies within the first 100 bytes
SignatureInFirst100(head) ==
  \E sig \in KnownSignatures : \E i \in 1..100 :
    /\ i + Len(sig) - 1 <= 100
    /\ i + Len(sig) - 1 <= Len(head)
    /\ SubSeq(head, i, i + Len(sig) - 1) = sig

\* C18: an upload whose first 100 content bytes contain a known malicious
\* signature (MZ, 0x7F ELF, #!, <?php, <script) is answered 400 and never
\* enqueued, whatever its declared name, target format and sniffed type.
C18_SignatureScreening ==
  [][ (http' # http /\ SignatureInFirst100(http'.request.contents.head)) =>
        /\ http'.response.code = 400
        /\ UNCHANGED <<jobs, delivered, backend, running, dir>>
    ]_vars

\* C18 witness: a JPEG with MZ at bytes 99 and 100, named photo.JPG, was
\* answered 400 by check_suspicious_signatures
C18_Witness ==
  /\ http.request # None
  /\ http.request.filename = PhotoJPG
  /\ http.request.contents = LateMZJpeg
  /\ http.calls[Len(http.calls)] = "check_suspicious_signatures"
  /\ http.response.code = 400
  /\ jobs = <<>>

\* the ceiling of a category
CeilingOf(category) ==
  CASE category = "doc"   -> MAX_FILE_SIZE_DOC
    [] category = "image" -> MAX_FILE_SIZE_IMAGE
    [] category = "audio" -> MAX_FILE_SIZE_AUDIO
    [] category = "video" -> MAX_FILE_SIZE_VIDEO

\* the handler got as far as calling f
Called(calls, f) == \E i \in DOMAIN calls : calls[i] = f

\* C19: check_file_size raises 413 exactly when the content length exceeds
\* the ceiling of the category get_file_category chooses for the upload
\* (content of exactly the ceiling passes), no other gate answers 413, and
\* the ceilings are ordered document < image < audio < video.
C19_SizeCeiling ==
  [][ (http' # http) =>
        /\ MAX_FILE_SIZE_DOC < MAX_FILE_SIZE_IMAGE
        /\ MAX_FILE_SIZE_IMAGE < MAX_FILE_SIZE_AUDIO
        /\ MAX_FILE_SIZE_AUDIO < MAX_FILE_SIZE_VIDEO
        /\ LET req      == http'.request
               category == get_file_category(req.contents.mime, req.convert_to)
           IN  IF Called(http'.calls, "check_file_size")
               THEN (http'.response.code = 413) <=>
                      (req.contents.size > CeilingOf(category))
               ELSE http'.response.code # 413
    ]_vars

\* C19 witness: audio of exactly the audio ceiling was accepted
C19_Witness ==
  /\ http.request # None
  /\ http.request.contents.mime = MimeMpeg
  /\ http.request.contents.size = MAX_FILE_SIZE_AUDIO
  /\ http.request.convert_to = Wav
  /\ Called(http.calls, "check_file_size")
  /\ http.response.code = 200
  /\ jobs # <<>>

\* the category of a sniffed type, "none" when it matches no category
SniffedCategory(mime) ==
  CASE StartsWith(mime, <<"i","m","a","g","e","/">>) -> "image"
    [] StartsWith(mime, <<"v","i","d","e","o","/">>) -> "video"
    [] StartsWith(mime, <<"a","u","d","i","o","/">>) -> "audio"
    [] StartsWith(mime,
         <<"a","p","p","l","i","c","a","t","i","o","n","/","p","d","f">>)
         -> "doc"
    [] StartsWith(mime, <<"t","e","x","t","/">>) -> "doc"
    [] OTHER -> "none"

\* C20: the gate category comes from the content first: whenever the sniffed
\* type is image/, video/, audio/, application/pdf or text/, the category
\* of get_file_category is the one of the sniffed type for every target
\* format, and the ceiling check_file_size applies is that category's.
C20_CategoryFromContentFirst ==
  http.request # None =>
    LET req     == http.request
        sniffed == SniffedCategory(req.contents.mime)
    IN  sniffed # "none" =>
          /\ get_file_category(req.contents.mime, req.convert_to) = sniffed
          /\ Called(http.calls, "check_file_size") =>
               ((http.response.code = 413) <=>
                  (req.contents.size > CeilingOf(sniffed)))

\* the gates in the order the claim gives them, each with whether the
\* request fails it and the status code of its error
GatesInOrder(req) ==
  << [ gate |-> "is_suspicious_filename", code |-> 400,
       fails |-> is_suspicious_filename(req.filename) ],
     [ gate |-> "check_suspicious_signatures", code |-> 400,
       fails |-> check_suspicious_signatures(req.contents) ],
     [ gate |-> "check_mime_type", code |-> 400,
       fails |-> check_mime_type(req.contents) ],
     [ gate |-> "check_file_size", code |-> 413,
       fails |-> check_file_size(req.contents, req.contents.mime,
                                 req.convert_to) ] >>

\* the first gate of the order a request fails, None when it fails none
FirstFailing ==
  [ req \in IntakeUploads |->
      LET gates   == GatesInOrder(req)
          failing == { i \in DOMAIN gates : gates[i].fails }
      IN  IF failing = {} THEN None
          ELSE [ gate  |-> gates[Min(failing)].gate,
                 code  |-> gates[Min(failing)].code,
                 later |-> { gates[i].gate : i \in Min(failing) + 1 .. Len(gates) } ] ]

\* C21: first failure wins: /convert answers with the error of the earliest
\* failing gate in the order filename screening, signature screening,
\* content-type sniffing, size check, that gate is the last call the handler
\* makes (no later gate is evaluated), and nothing is enqueued; a request
\* that fails no gate is answered 200.
C21_FirstFailureWins ==
  [][ (http' # http) =>
        LET first == FirstFailing[http'.request]
            calls == http'.calls
        IN  IF first = None THEN http'.response.code = 200
            ELSE /\ http'.response.code = first.code
                 /\ calls[Len(calls)] = first.gate
                 /\ \A gate \in first.later : ~Called(calls, gate)
                 /\ UNCHANGED <<jobs, delivered, backend, running, dir>>
    ]_vars

\* C21 witness: oversized content with MZ in its first 100 bytes was answered
\* 400 by the signature screening, the size check never called
C21_Witness ==
  /\ http.request # None
  /\ http.request.filename = PhotoJPG
  /\ http.request.contents = Sized(LateMZJpeg, MAX_FILE_SIZE_IMAGE + 1, MimeJpeg)
  /\ http.response.code = 400
  /\ http.calls[Len(http.calls)] = "check_suspicious_signatures"
  /\ ~Called(http.calls, "check_file_size")

\* a step of the cleanup pass
PassStep == reap'.pc # reap.pc \/ reap'.todo # reap.todo

\* the outcome of a pass is the dict the task returns
Success(outcome) ==
  /\ outcome # None
  /\ "status" \in DOMAIN outcome.result
  /\ outcome.result.status = "success"

\* C23: the reaper deletes only expired entries: a pass goes on to unlink an
\* entry only if its start time minus the modification time it read for the
\* entry is strictly greater than 15 minutes, it removes no entry but the
\* one it found so, and every other entry is left in place and unchanged.
C23_OnlyExpiredDeleted ==
  [][ PassStep =>
        /\ (reap'.pc = "unlink") =>
             /\ reap.pc = "stat"
             /\ reap.item \in DOMAIN dir
             /\ reap.current_time - dir[reap.item].mtime > 15 * 60
             /\ reap'.file_age = reap.current_time - dir[reap.item].mtime
             /\ reap'.item = reap.item
        /\ \A f \in DOMAIN dir :
             IF f \in DOMAIN dir' THEN dir'[f] = dir[f]
             ELSE /\ reap.pc = "unlink"
                  /\ f = reap.item
                  /\ reap.file_age > 15 * 60
        /\ DOMAIN dir' \subseteq DOMAIN dir
    ]_vars

\* C23 witness: a pass has removed one entry and left in place an entry of
\* age exactly 15 minutes
C23_Witness ==
  /\ Success(reap.prev)
  /\ reap.prev.result.deleted_count = 1
  /\ \E f \in DOMAIN dir : reap.prev.current_time - dir[f].mtime = 15 * 60

\* the time of the pass a step belongs to
PassTime == IF reap.pc = "idle" THEN clock ELSE reap.current_time

\* C24: reaper passes are idempotent: a pass run at the time of the pass
\* before it, which returned its result, deletes nothing: none of its steps
\* changes the directory, and its deleted count is 0.
C24_SecondPassDeletesNothing ==
  [][ (PassStep /\ Success(reap.prev)
         /\ PassTime = reap.prev.current_time) =>
        /\ dir' = dir
        /\ reap'.deleted_count = 0
        /\ (reap'.pc = "idle" /\ Success(reap'.prev)) =>
             reap'.prev.result.deleted_count = 0
    ]_vars

\* C24 witness: a pass that deleted an entry was followed at once by a pass
\* that returned a deleted count of 0, with entries left in the directory
C24_Witness ==
  /\ Success(reap.prev)
  /\ reap.prev.result.deleted_count = 0
  /\ Success(reap.prev.before)
  /\ reap.prev.before.result.deleted_count > 0
  /\ reap.prev.before.current_time = reap.prev.current_time
  /\ dir # <<>>

\* C25: the reaper tolerates vanishing entries: whenever an entry is removed
\* by another actor between the listing of a pass and its type check, age
\* computation or unlink, the pass still ends with a success result.
C25_VanishingTolerated ==
  reap.prev # None => Success(reap.prev)

\* two /result requests in a row for one id, each of which found the same
\* directory at every look it took: nothing wrote or deleted in between
QuietPair(d) ==
  /\ d.pc = "idle"
  /\ d.resp # None
  /\ d.prev # None
  /\ d.prev.file_id = d.file_id
  /\ d.prev.steady
  /\ d.steady
  /\ d.prev.saw = d.saw

\* C22: reads do not mutate the store: no step of download_result or of
\* get_status changes the artifact directory; two /result/{job_id} requests
\* between which the directory stays as it is answer alike, with the bytes
\* of the artifact when it is present; a request that finds no file with
\* the job id prefix is answered 404.
C22_ReadsDoNotMutate ==
  [][ /\ (dl' # dl \/ sreq' # sreq) => dir' = dir
      /\ (dl' # dl /\ QuietPair(dl')) =>
           /\ dl'.resp = dl'.prev.resp
           /\ matching(dl'.saw, dl'.file_id) # {} =>
                /\ dl'.resp.code = 200
                /\ dl'.resp.filename \in matching(dl'.saw, dl'.file_id)
                /\ dl'.resp.body = dl'.saw[dl'.resp.filename].data
      /\ (dl' # dl /\ dl'.pc = "idle"
            /\ matching(dl'.saw, dl'.file_id) = {}) =>
           dl'.resp.code = 404
    ]_vars

\* C22 witness: the artifact of the finished job was sent twice, byte for
\* byte the same, and the directory still holds it
C22_Witness ==
  /\ QuietPair(dl)
  /\ dl.resp.code = 200
  /\ dl.prev.resp.code = 200
  /\ dl.resp.body = dl.prev.resp.body
  /\ dl.resp.body # <<>>
  /\ dl.file_id \in DOMAIN backend
  /\ backend[dl.file_id].state = "SUCCESS"
  /\ dl.resp.filename \in DOMAIN dir

\* C26: readers tolerate disappearing files: whatever the reaper deletes
\* between the listing of download_result and its existence check or the
\* opening of the file, the request is answered with the artifact bytes
\* (200) or with 404, never with an unhandled error.
C26_ReadersTolerateVanishing ==
  dl.resp # None =>
    \/ dl.resp = NotFound
    \/ dl.resp.code = 200 /\ StartsWith(dl.resp.filename, dl.file_id)

\* the job ran once and has ended with its result stored in the backend
RanOnce(task_id) ==
  /\ task_id \in DOMAIN jobs
  /\ delivered[task_id] = 1
  /\ running[task_id] = EmptyBag
  /\ backend[task_id].state = "SUCCESS"
  /\ backend[task_id].info.status = "completed"

\* every artifact of the job that is, or was, in the directory was stored
\* at a time t with t + TTL before the time of the last pass that returned
PassedOver(task_id) ==
  /\ Success(reap.prev)
  /\ \A f \in matching(dir, task_id) :
       reap.prev.current_time > dir[f].mtime + 15 * 60

\* C27: eviction becomes visible: for a job that completed and stored its
\* artifact at time t and was not executed again, a /result/{job_id}
\* request that begins after a reaper pass run at a time later than
\* t + TTL has returned is answered 404.
C27_EvictionVisible ==
  [][ \A task_id \in TaskIds :
        ( /\ dl.pc = "idle" /\ dl' # dl /\ dl'.file_id = task_id
          /\ RanOnce(task_id)
          /\ PassedOver(task_id) )
        => /\ dl'.pc = "idle"
           /\ dl'.resp.code = 404
           /\ matching(dir, task_id) = {}
    ]_vars

\* C27 witness: the job ran once and completed, a pass run after the TTL
\* evicted its artifact and returned, and /result answered 404
C27_Witness ==
  /\ RanOnce(TaskId(1))
  /\ PassedOver(TaskId(1))
  /\ reap.prev.result.deleted_count = 1
  /\ \E f \in reap.evicted : StartsWith(f, TaskId(1))
  /\ dl.pc = "idle" /\ dl.file_id = TaskId(1)
  /\ dl.resp = NotFound

\* C28: TTL eviction is monotonic: once the reaper has deleted the artifact
\* of a job, no file with the job's id prefix exists in any later state,
\* redeliveries of the job included.
C28_EvictionMonotonic ==
  \A task_id \in TaskIds :
    (\E f \in reap.evicted : StartsWith(f, task_id))
      => matching(dir, task_id) = {}

\* C29: a failed job is terminal: once get_status reports failed for a job,
\* it reports failed for it in every later state.
C29_FailedIsTerminal ==
  [][ \A task_id \in DOMAIN jobs :
        (\E r \in StatusNow(task_id) : r.status = "failed")
          => \A r \in StatusNext(task_id) : r.status = "failed"
    ]_vars

\* a step of the worker pool on the one delivery of the job in which the
\* converter call returns and open and write do not raise
RunsJob ==
  /\ Work
  /\ TotalDelivered' <= 1
  /\ \A task_id \in TaskIds :
       ~ConverterRaises(task_id) /\ ~StorageFails(task_id)

\* Progress: the job of photo.JPG to webp, delivered once to a worker that
\* goes on until the task returns, and /result requests.
NextProgress ==
  \/ \E req \in StatusUploads : jobs = <<>> /\ convert_file(req)
  \/ RunsJob
  \/ Download

\* the worker eventually takes every step it can take: the pool runs the
\* delivered task and no worker is lost
SpecProgress == Init /\ [][NextProgress]_vars /\ WF_vars(RunsJob)

\* the bytes the converter returns for the job of task_id
Artifacts(task_id) ==
  { <<o.bytes>> : o \in { x \in converter_outcomes(
                                  jobs[task_id].filename,
                                  jobs[task_id].contents,
                                  jobs[task_id].convert_to,
                                  jobs[task_id].conversion_settings) :
                            x.kind = "return" } }

\* get_status reports the job completed
ReportedCompleted(task_id) ==
  /\ task_id \in DOMAIN backend
  /\ \A r \in StatusNow(task_id) : r.status = "completed"

\* C30 (progress): the accepted job of photo.JPG to webp is eventually
\* reported completed by get_status.
C30_Progress ==
  (TaskId(1) \in DOMAIN jobs) ~> ReportedCompleted(TaskId(1))

\* C30 (result): a /result answer for the job carries its artifact, the
\* bytes the converter returned.
C30_Result ==
  (dl.resp # None /\ dl.file_id = TaskId(1) /\ dl.resp.code = 200)
    => dl.resp.body \in Artifacts(TaskId(1))

\* C30: progress to completion: the job accepted for photo.JPG to webp is,
\* with a worker that runs it, a converter that returns and no crash,
\* eventually reported completed by get_status, and /result then returns
\* its artifact (nothing reaps it in these runs).
C30_ProgressToCompletion == C30_Progress /\ []C30_Result

\* the progress of the checkpoint the backend holds for task_id, 0 with none
Checkpoint(b, task_id) ==
  IF task_id \in DOMAIN b /\ b[task_id].state = "processing"
  THEN b[task_id].info.progress
  ELSE 0

\* this step, the one execution of task_id publishes a checkpoint
Publishes(task_id) ==
  /\ task_id \in DOMAIN backend'
  /\ backend'[task_id].state = "processing"
  /\ (task_id \notin DOMAIN backend \/ backend'[task_id] # backend[task_id])

\* this step, the one execution of task_id returns the completed result
ReturnsCompleted(task_id) ==
  /\ task_id \in DOMAIN backend
  /\ backend[task_id].state = "processing"
  /\ backend'[task_id].state = "SUCCESS"
  /\ backend'[task_id].info.status = "completed"

\* C31 (order): the checkpoints of an execution come in the order 15, 20,
\* 50, 90, none skipped and none below the one before it.
C31_Order ==
  [][ \A task_id \in TaskIds :
        Publishes(task_id) =>
          <<Checkpoint(backend, task_id), Checkpoint(backend', task_id)>>
            \in { <<0, 15>>, <<15, 20>>, <<20, 50>>, <<50, 90>>, <<90, 100>> }
    ]_vars

\* C31: checkpoint order: within one execution the published checkpoints
\* come in the order 15, 20, 50, 90, 100, progress never decreases, none is
\* skipped on the success path, and an execution that returns the
\* completed result has published the final checkpoint 100 before.
C31_CheckpointOrder ==
  [][ \A task_id \in TaskIds :
        /\ Publishes(task_id) =>
             <<Checkpoint(backend, task_id), Checkpoint(backend', task_id)>>
               \in { <<0, 15>>, <<15, 20>>, <<20, 50>>, <<50, 90>>,
                     <<90, 100>> }
        /\ ReturnsCompleted(task_id) => Checkpoint(backend, task_id) = 100
    ]_vars

\* C32: sanitized names use only the allow-list: every character of the
\* name sanitize_filename hands to the task, stem and extension alike, is a
\* word character, '-', '.' or a space; it holds no path separator.
C32_SanitizedAllowList ==
  \A task_id \in DOMAIN jobs :
    \A i \in 1..Len(jobs[task_id].filename) :
      /\ IsSafeChar(jobs[task_id].filename[i])
      /\ jobs[task_id].filename[i] \notin {"/", "\\"}

\* C33: sanitized names are length-bounded: the name sanitize_filename
\* hands to the task, stem plus dot plus extension, has at most 100
\* characters, also with the default stem and with a long extension.
C33_SanitizedLength ==
  \A task_id \in DOMAIN jobs : Len(jobs[task_id].filename) <= 100

\* C34: converter call binding: what a converter has returned for a job was
\* made from the job's content as input, for the job's target format, and
\* with every option of the resolved settings bundle that the converter has
\* a parameter for as the value it acted on (image quality 80 included).
C34_ConverterBinding ==
  \A task_id \in DOMAIN jobs :
    \A l \in BagToSet(running[task_id]) :
      l.result # <<>> =>
        LET out      == l.result[1]
            settings == jobs[task_id].conversion_settings
        IN  /\ out.input = jobs[task_id].contents.mime
            /\ out.format = Lower(jobs[task_id].convert_to)
            /\ \A option \in DOMAIN settings \cap DOMAIN out.params :
                 out.params[option] = settings[option]

\* C35: artifact ownership of lookups: for every id x a client may ask
\* about, get_status(x) reports completed only for an id that was issued to
\* a job, and the file it names is the artifact of that very job; a proper
\* prefix of an issued id matches nothing.
C35_LookupOwnership ==
  \A x \in QueryIds :
    \A r \in StatusNow(x) :
      r.status = "completed" =>
        /\ x \in DOMAIN jobs
        /\ "filename" \in DOMAIN r => r.filename = result_path(x)

\* the answers of a download_result(file_id) call all of whose steps see
\* the directory d
download_result(d, file_id) ==
  IF matching(d, file_id) = {} THEN { NotFound }
  ELSE { [code |-> 200, filename |-> f, body |-> d[f].data] :
           f \in matching(d, file_id) }

\* C36: status and result agree: in every state in which get_status
\* reports a job completed, download_result for the job in the same state
\* returns an artifact and not 404, also after the reaper has evicted the
\* artifact while the backend still holds the completed result.
C36_StatusResultAgree ==
  \A task_id \in DOMAIN jobs :
    (\E r \in StatusNow(task_id) : r.status = "completed")
      => \A a \in download_result(dir, task_id) : a.code = 200

\* C37: completed means fully written: whenever get_status reports a job
\* completed or download_result returns a file for it, that file holds the
\* complete bytes a conversion of the job returned, never an empty or
\* partly written artifact, redeliveries included.
C37_CompletedMeansWritten ==
  \A task_id \in DOMAIN jobs :
    /\ \A r \in StatusNow(task_id) :
         (r.status = "completed" /\ r.filename \in DOMAIN dir)
           => dir[r.filename].data \in Artifacts(task_id)
    /\ \A a \in download_result(dir, task_id) :
         a.code = 200 => a.body \in Artifacts(task_id)

\* C38: completed does not regress: once get_status reports a job
\* completed, it reports it completed in every later state, whatever the
\* reaper, the broker's redeliveries and the executions do.
C38_CompletedStays ==
  [][ \A task_id \in DOMAIN jobs :
        (\A r \in StatusNow(task_id) : r.status = "completed")
          => \A r \in StatusNext(task_id) : r.status = "completed"
    ]_vars

=============================================================================
